---- MODULE Spec2Model ----
(***************************************************************************)
(* The vodozemac wrapper classes of godot-vodozemac as a state machine:    *)
(* VodozemacAccount, VodozemacSession, VodozemacGroupSession and           *)
(* VodozemacInboundGroupSession.  Every wrapper method is one action,      *)
(* translated from its C++ body.  The ratchet engine the wrappers call     *)
(* (the olm:: and megolm:: functions of vodozemac/src/lib.rs.h) is not     *)
(* part of the sources at hand; its operators (lib_...) follow the         *)
(* specification of the engine.                                            *)
(***************************************************************************)
EXTENDS Integers, Sequences, FiniteSets, TLC

(***************************************************************************)
(* Bounds of the model.                                                    *)
(***************************************************************************)
\* identities olm::new_account may draw (each call draws a fresh one)
MaxIdent == 2
\* one-time keys an account generates over its life (key ids 0..MaxKeyId-1)
MaxKeyId == 2
\* VodozemacSession objects the accounts create
MaxSessions == 2
\* envelopes the host keeps from encrypt calls
MaxWire == 3
\* highest chain index a sending chain reaches
MaxIdx == 2
\* pickle strings the host keeps
MaxPickles == 1

Accounts == {"A", "B"}
\* the account that publishes one-time keys and accepts inbound sessions
Responders == {"A"}
\* the account that starts outbound sessions
Initiators == {"B"}
SessionIds == 1..MaxSessions
GroupIds == {"G"}
InboundIds == {"I"}

(***************************************************************************)
(* Text crossing the boundary.  A godot String is a sequence of code       *)
(* points, a C string a sequence of bytes.                                 *)
(***************************************************************************)
\* 'A' and U+00E9
Plaintexts == { <<65>>, <<233>> }

Utf8Char(c) ==
    IF c < 128 THEN <<c>> ELSE <<192 + (c \div 64), 128 + (c % 64)>>

\* String::utf8(): the UTF-8 bytes of a String
RECURSIVE String_utf8(_)
String_utf8(s) ==
    IF s = <<>> THEN <<>> ELSE Utf8Char(Head(s)) \o String_utf8(Tail(s))

\* c_str(): the bytes up to the first NUL
RECURSIVE c_str(_)
c_str(b) ==
    IF b = <<>> \/ Head(b) = 0 THEN <<>> ELSE <<Head(b)>> \o c_str(Tail(b))

\* String(const char*): one code point per byte (Latin-1)
String_latin1(b) ==
    [i \in 1..Len(c_str(b)) |-> c_str(b)[i]]

\* String::utf8(const char*, len): UTF-8 decoding of one- and two-byte forms
RECURSIVE String_from_utf8(_)
String_from_utf8(b) ==
    IF b = <<>> THEN <<>>
    ELSE IF Head(b) < 128 THEN <<Head(b)>> \o String_from_utf8(Tail(b))
    ELSE IF Len(b) >= 2
         THEN <<(Head(b) - 192) * 64 + (b[2] - 128)>>
                  \o String_from_utf8(Tail(Tail(b)))
         ELSE <<65533>>

(***************************************************************************)
(* Keys.  A curve25519 public key as base64 text: the identity key of the  *)
(* account with identity `ident` (id = -1) or its one-time key `id`.       *)
(***************************************************************************)
CurveKey(ident, id) == [valid |-> TRUE, ident |-> ident, id |-> id]
BadKey == [valid |-> FALSE, ident |-> 0, id |-> 0]
IdentityKey(ident) == CurveKey(ident, -1)

\* a pickle key: its length in bytes and which key it is
PickleKey(len, id) == [len |-> len, id |-> id]
KeyLen == 32
PickleKeys == { PickleKey(KeyLen, 1), PickleKey(KeyLen, 2),
                PickleKey(KeyLen - 1, 1), PickleKey(KeyLen + 1, 1) }
\* the keys the host pickles under; it may unpickle with any of PickleKeys
HostKeys == { PickleKey(KeyLen, 1), PickleKey(KeyLen - 1, 1), PickleKey(KeyLen + 1, 1) }

(***************************************************************************)
(* Error texts.                                                            *)
(***************************************************************************)
NoError == ""
ErrAccountNotInit == "Account not initialized"
ErrSessionNotInit == "Session not initialized"
ErrGroupNotInit == "Group session not initialized"
ErrInboundNotInit == "Inbound group session not initialized"
ErrKeyLen == "Key must be exactly 32 bytes"

(***************************************************************************)
(* The olm engine: accounts.  An account is its identity, the next         *)
(* one-time key id, the ids whose private half it still holds (pool) and   *)
(* the ids not yet marked as published (unpub).                            *)
(***************************************************************************)
NoAccount == [ident |-> 0, next |-> 0, pool |-> {}, unpub |-> {}]

lib_new_account(ident) ==
    [ident |-> ident, next |-> 0, pool |-> {}, unpub |-> {}]

lib_identity_keys(st) ==
    [ed25519 |-> [valid |-> TRUE, ident |-> st.ident, id |-> -2],
     curve25519 |-> IdentityKey(st.ident)]

\* count new keys with the ids next, next+1, ...; a count of zero or less is
\* refused
lib_generate_one_time_keys(st, count) ==
    LET new == st.next .. (st.next + count - 1)
    IN  IF count <= 0
        THEN [err |-> "InvalidArgument", st |-> st]
        ELSE [err |-> NoError,
              st  |-> [st EXCEPT !.next = @ + count, !.pool = @ \cup new,
                                 !.unpub = @ \cup new]]

lib_one_time_keys(st) ==
    [k \in st.unpub |-> CurveKey(st.ident, k)]

lib_mark_keys_as_published(st) ==
    [st EXCEPT !.unpub = {}]

lib_max_number_of_one_time_keys(st) == 50

\* types::curve_key_from_base64
lib_curve_key_from_base64(k) ==
    IF k.valid THEN [err |-> NoError, key |-> k]
    ELSE [err |-> "InvalidKey", key |-> k]

(***************************************************************************)
(* The olm engine: pairwise sessions.  A ratchet chain is named by the     *)
(* side that sends on it, its epoch (how often that side has advanced its  *)
(* ratchet key) and the epoch of the other side it was derived against     *)
(* (ack).  keys is the key agreement material the root key comes from.     *)
(***************************************************************************)
\* skipped message keys a receiving chain caches
SkipWindow == 1
\* sending epochs a session reaches
MaxEpoch == 1

NoKeys == [ik |-> BadKey, base |-> 0, rik |-> BadKey, otk |-> BadKey]
NoSession ==
    [keys |-> NoKeys, side |-> "none", sendActive |-> FALSE, sendEpoch |-> 0,
     sendAck |-> 0, sendIdx |-> 0, recvEpoch |-> 0, recvNext |-> 0,
     skipped |-> {}, heard |-> FALSE]

\* the session of the side that performed the outbound key agreement
InitiatorSession(keys) ==
    [keys |-> keys, side |-> "init", sendActive |-> TRUE, sendEpoch |-> 0,
     sendAck |-> -1, sendIdx |-> 0, recvEpoch |-> -1, recvNext |-> 0,
     skipped |-> {}, heard |-> FALSE]

\* the session of the side that mirrored it, before the first decrypt
ResponderSession(keys) ==
    [keys |-> keys, side |-> "resp", sendActive |-> FALSE, sendEpoch |-> -1,
     sendAck |-> -1, sendIdx |-> 0, recvEpoch |-> 0, recvNext |-> 0,
     skipped |-> {}, heard |-> TRUE]

lib_create_outbound_session(st, identity_key, one_time_key, base) ==
    InitiatorSession([ik |-> IdentityKey(st.ident), base |-> base,
                      rik |-> identity_key, otk |-> one_time_key])

\* what the MAC of a message authenticates
Content(m) ==
    [keys |-> m.keys, from |-> m.from, epoch |-> m.epoch, ack |-> m.ack,
     idx |-> m.idx, body |-> m.body]

\* a string that is no message
BadMessage ==
    [kind |-> -1, keys |-> NoKeys, from |-> "none", epoch |-> 0, ack |-> 0,
     idx |-> 0, body |-> <<>>,
     mac |-> [keys |-> NoKeys, from |-> "forged", epoch |-> 0, ack |-> 0,
              idx |-> 0, body |-> <<>>]]

\* message type 0 is a pre-key message, 1 a normal one
lib_olm_message_from_parts(message_type, ciphertext) ==
    IF message_type \in {0, 1} /\ ciphertext.kind = message_type
    THEN [err |-> NoError, msg |-> ciphertext]
    ELSE [err |-> "InvalidMessage", msg |-> ciphertext]

lib_session_id(st) == st.keys

lib_session_matches(st, m) ==
    m.kind = 0 /\ m.keys = st.keys

lib_session_encrypt(st, bytes) ==
    LET fresh == ~st.sendActive
        epoch == IF fresh THEN st.sendEpoch + 1 ELSE st.sendEpoch
        idx   == IF fresh THEN 0 ELSE st.sendIdx
        ack   == IF fresh THEN st.recvEpoch ELSE st.sendAck
        c     == [keys |-> st.keys, from |-> st.side, epoch |-> epoch,
                  ack |-> ack, idx |-> idx, body |-> bytes]
    IN  [msg |-> [kind |-> IF st.heard THEN 1 ELSE 0, keys |-> c.keys,
                  from |-> c.from, epoch |-> c.epoch, ack |-> c.ack,
                  idx |-> c.idx, body |-> c.body, mac |-> c],
         st  |-> [st EXCEPT !.sendActive = TRUE, !.sendEpoch = epoch,
                            !.sendAck = ack, !.sendIdx = idx + 1]]

\* advance the receiving chain `epoch` from index `from` to the message's index
Advance(st, m, from) ==
    IF m.idx - from > SkipWindow
    THEN [err |-> "MessageGap", st |-> st, plaintext |-> <<>>]
    ELSE [err |-> NoError,
          st  |-> [st EXCEPT !.recvEpoch = m.epoch, !.recvNext = m.idx + 1,
                             !.skipped = @ \cup {<<m.epoch, j>> : j \in from .. (m.idx - 1)},
                             !.heard = TRUE],
          plaintext |-> m.body]

lib_session_decrypt(st, m) ==
    IF m.keys # st.keys \/ m.from = st.side \/ m.mac # Content(m)
    THEN [err |-> "AuthenticationFailure", st |-> st, plaintext |-> <<>>]
    ELSE IF <<m.epoch, m.idx>> \in st.skipped
    THEN [err |-> NoError,
          st |-> [st EXCEPT !.skipped = @ \ {<<m.epoch, m.idx>>}],
          plaintext |-> m.body]
    ELSE IF m.epoch = st.recvEpoch /\ m.idx >= st.recvNext
    THEN Advance(st, m, st.recvNext)
    ELSE IF m.epoch = st.recvEpoch + 1 /\ m.ack = st.sendEpoch
    THEN Advance([st EXCEPT !.sendActive = FALSE], m, 0)
    ELSE IF m.epoch <= st.recvEpoch
    THEN [err |-> "MessageGap", st |-> st, plaintext |-> <<>>]
    ELSE [err |-> "AuthenticationFailure", st |-> st, plaintext |-> <<>>]

\* the account side of inbound establishment: [err, account, session, plaintext]
lib_create_inbound_session(st, identity_key, m) ==
    LET fail(e) == [err |-> e, account |-> st, session |-> NoSession,
                    plaintext |-> <<>>]
        d == lib_session_decrypt(ResponderSession(m.keys), m)
    IN  IF m.kind # 0 THEN fail("InvalidMessageType")
        ELSE IF ~(m.keys.otk.valid /\ m.keys.otk.ident = st.ident
                  /\ m.keys.otk.id \in st.pool)
        THEN fail("UnknownOneTimeKey")
        ELSE IF identity_key # m.keys.ik \/ m.keys.rik # IdentityKey(st.ident)
        THEN fail("AuthenticationFailure")
        ELSE IF d.err # NoError THEN fail(d.err)
        ELSE [err |-> NoError,
              account |-> [st EXCEPT !.pool = @ \ {m.keys.otk.id},
                                     !.unpub = @ \ {m.keys.otk.id}],
              session |-> d.st, plaintext |-> d.plaintext]

(***************************************************************************)
(* The pickle cipher.  A pickle names the entity type and format version   *)
(* and holds the state, encrypted and authenticated under a key.           *)
(***************************************************************************)
PickleVersion == 1

lib_pickle(type, st, key) ==
    [type |-> type, version |-> PickleVersion, key |-> key.id, st |-> st,
     intact |-> TRUE]

lib_from_pickle(type, blob, key) ==
    IF ~blob.intact \/ blob.key # key.id
    THEN [err |-> "DecryptionFailure", st |-> blob.st]
    ELSE IF blob.version # PickleVersion
    THEN [err |-> "UnsupportedVersion", st |-> blob.st]
    ELSE IF blob.type # type
    THEN [err |-> "TypeMismatch", st |-> blob.st]
    ELSE [err |-> NoError, st |-> blob.st]

(***************************************************************************)
(* The megolm engine.  A group session is its id (the signing key) and the *)
(* index of its chain; an inbound session is the id, the first index it    *)
(* can decrypt and the index its chain has advanced to.                    *)
(***************************************************************************)
NoGroup == [sid |-> 0, index |-> 0]
NoInbound == [sid |-> 0, first |-> 0, latest |-> 0]

lib_new_group_session(sid) == [sid |-> sid, index |-> 0]

lib_group_session_id(st) == st.sid

lib_group_message_index(st) == st.index

\* what the signature and MAC of a group message authenticate
GroupContent(m) == [sid |-> m.sid, index |-> m.index, body |-> m.body]

lib_group_encrypt(st, bytes) ==
    LET c == [sid |-> st.sid, index |-> st.index, body |-> bytes]
    IN  [msg |-> [ok |-> TRUE, sid |-> c.sid, index |-> c.index,
                  body |-> c.body, auth |-> c],
         st  |-> [st EXCEPT !.index = @ + 1]]

\* a string that is no group message
BadGroupMessage ==
    [ok |-> FALSE, sid |-> 0, index |-> 0, body |-> <<>>,
     auth |-> [sid |-> -1, index |-> 0, body |-> <<>>]]

lib_megolm_message_from_base64(c) ==
    IF c.ok THEN [err |-> NoError, msg |-> c]
    ELSE [err |-> "InvalidMessage", msg |-> c]

\* the session key (signed) and the exported session key (unsigned)
lib_group_session_key(st) ==
    [kind |-> "session_key", sid |-> st.sid, index |-> st.index]

BadSessionKey == [kind |-> "none", sid |-> 0, index |-> 0]

lib_session_key_from_base64(k) ==
    IF k.kind = "session_key" THEN [err |-> NoError, key |-> k]
    ELSE [err |-> "InvalidKey", key |-> k]

lib_exported_session_key_from_base64(k) ==
    IF k.kind = "exported" THEN [err |-> NoError, key |-> k]
    ELSE [err |-> "InvalidKey", key |-> k]

lib_new_inbound_group_session(key) ==
    [sid |-> key.sid, first |-> key.index, latest |-> key.index]

lib_import_inbound_group_session(key) ==
    [sid |-> key.sid, first |-> key.index, latest |-> key.index]

lib_inbound_session_id(st) == st.sid

lib_first_known_index(st) == st.first

lib_inbound_decrypt(st, m) ==
    IF m.index < st.first
    THEN [err |-> "MessageTooOld", st |-> st, plaintext |-> <<>>, message_index |-> 0]
    ELSE IF m.sid # st.sid \/ m.auth # GroupContent(m)
    THEN [err |-> "AuthenticationFailure", st |-> st, plaintext |-> <<>>,
          message_index |-> 0]
    ELSE [err |-> NoError,
          st |-> [st EXCEPT !.latest = IF m.index > @ THEN m.index ELSE @],
          plaintext |-> m.body, message_index |-> m.index]

lib_export_at(st, index) ==
    IF index < st.first
    THEN [err |-> "IndexOutOfRange", key |-> BadSessionKey]
    ELSE [err |-> NoError,
          key |-> [kind |-> "exported", sid |-> st.sid, index |-> index]]

(***************************************************************************)
(* State.                                                                  *)
(***************************************************************************)
VARIABLES
    scenario,              \* which objects the host program drives
    account,               \* VodozemacAccount::account, per account object
    account_last_error,    \* VodozemacAccount::last_error
    session,               \* VodozemacSession::session, per session object
    session_last_error,    \* VodozemacSession::last_error
    group_session,         \* VodozemacGroupSession::session
    group_last_error,      \* VodozemacGroupSession::last_error
    inbound_session,       \* VodozemacInboundGroupSession::session
    inbound_last_error,    \* VodozemacInboundGroupSession::last_error
    group_wire,            \* the group messages encrypt has returned
    nextIdent,             \* identity and signing keys the engine has drawn so far
    wire,                  \* the envelopes encrypt has returned
    pickles,               \* the pickle strings pickle has returned
    consumed,              \* history: the one-time keys inbound establishment has used
    double_free,           \* some object has been deleted twice
    crashed,               \* the process has aborted
    thread,                \* per host thread: where it is in the call it makes
    mutex,                 \* the mutex the host keeps for the shared account
    freed,                 \* per account: `delete account` has run on the object
                           \* the pointer still refers to
    use_after_free         \* some deleted object has been read

olmEnt == <<account, account_last_error, session, session_last_error>>
megEnt == <<group_session, group_last_error, inbound_session, inbound_last_error,
            group_wire>>

hostEnt == <<thread, mutex, freed, use_after_free>>

vars == <<scenario, olmEnt, megEnt, nextIdent, wire, pickles, consumed, double_free,
          crashed, hostEnt>>

\* an owning raw pointer: null, or the boxed engine object it points to
Null(none) == [init |-> FALSE, st |-> none]
Live(st) == [init |-> TRUE, st |-> st]

\* a VodozemacSession object that exists, with its pointer
Born(h) == [born |-> TRUE, init |-> h.init, st |-> h.st]


(***************************************************************************)
(* VodozemacAccount.  Each method maps the object's pointer to the new     *)
(* pointer, the new last_error and the value returned.                     *)
(***************************************************************************)
VodozemacAccount_initialize(h, ident) ==
    [h |-> Live(lib_new_account(ident)), last_error |-> NoError,
     result |-> "OK", deletes |-> IF h.init THEN 1 ELSE 0]

VodozemacAccount_get_identity_keys(h) ==
    IF ~h.init
    THEN [h |-> h, last_error |-> ErrAccountNotInit, result |-> <<>>]
    ELSE [h |-> h, last_error |-> NoError, result |-> lib_identity_keys(h.st)]

\* generate_one_time_keys as it would be without the handler for what the
\* engine throws
Account_generate_one_time_keys_uncaught(h, count) ==
    LET g == lib_generate_one_time_keys(h.st, count)
    IN  IF ~h.init
        THEN [h |-> h, last_error |-> ErrAccountNotInit, result |-> "FAILED"]
        ELSE [h |-> Live(g.st), last_error |-> NoError, result |-> "OK"]

VodozemacAccount_generate_one_time_keys(h, count) ==
    LET g == lib_generate_one_time_keys(h.st, count)
    IN  IF ~h.init
        THEN [h |-> h, last_error |-> ErrAccountNotInit, result |-> "FAILED"]
        ELSE IF g.err # NoError
        THEN [h |-> h, last_error |-> g.err, result |-> "FAILED"]
        ELSE [h |-> Live(g.st), last_error |-> NoError, result |-> "OK"]

\* get_one_time_keys as it would be if every key were stored under one
\* Dictionary key, so that only the last one stayed
Account_get_one_time_keys_last_only(h) ==
    LET last == {k \in h.st.unpub : \A j \in h.st.unpub : j <= k}
    IN  IF ~h.init
        THEN [h |-> h, last_error |-> ErrAccountNotInit, result |-> <<>>]
        ELSE [h |-> h, last_error |-> NoError,
              result |-> [k \in last |-> lib_one_time_keys(h.st)[k]]]

VodozemacAccount_get_one_time_keys(h) ==
    IF ~h.init
    THEN [h |-> h, last_error |-> ErrAccountNotInit, result |-> <<>>]
    ELSE [h |-> h, last_error |-> NoError, result |-> lib_one_time_keys(h.st)]

\* mark_keys_as_published as it would be if the call did not reach the engine
Account_mark_keys_as_published_unforwarded(h) ==
    IF ~h.init
    THEN [h |-> h, last_error |-> ErrAccountNotInit, result |-> "void"]
    ELSE [h |-> h, last_error |-> NoError, result |-> "void"]

VodozemacAccount_mark_keys_as_published(h) ==
    IF ~h.init
    THEN [h |-> h, last_error |-> ErrAccountNotInit, result |-> "void"]
    ELSE [h |-> Live(lib_mark_keys_as_published(h.st)),
          last_error |-> NoError, result |-> "void"]

VodozemacAccount_get_max_number_of_one_time_keys(h) ==
    IF ~h.init
    THEN [h |-> h, last_error |-> ErrAccountNotInit, result |-> 0]
    ELSE [h |-> h, last_error |-> NoError,
          result |-> lib_max_number_of_one_time_keys(h.st)]

\* pickle as it would be if the key's length were checked first
Account_pickle_key_first(h, key) ==
    IF key.len # KeyLen
    THEN [h |-> h, last_error |-> ErrKeyLen, result |-> ""]
    ELSE IF ~h.init
    THEN [h |-> h, last_error |-> ErrAccountNotInit, result |-> ""]
    ELSE [h |-> h, last_error |-> NoError,
          result |-> lib_pickle("account", h.st, key)]

VodozemacAccount_pickle(h, key) ==
    IF ~h.init
    THEN [h |-> h, last_error |-> ErrAccountNotInit, result |-> ""]
    ELSE IF key.len # KeyLen
    THEN [h |-> h, last_error |-> ErrKeyLen, result |-> ""]
    ELSE [h |-> h, last_error |-> NoError,
          result |-> lib_pickle("account", h.st, key)]

\* from_pickle as it would be if a failed load kept what it had read
Account_from_pickle_partial(h, pickle_str, key) ==
    LET r == lib_from_pickle("account", pickle_str, key)
    IN  IF key.len # KeyLen
        THEN [h |-> h, last_error |-> ErrKeyLen, result |-> "FAILED", deletes |-> 0]
        ELSE IF r.err = NoError
        THEN [h |-> Live(r.st), last_error |-> NoError, result |-> "OK",
              deletes |-> IF h.init THEN 1 ELSE 0]
        ELSE [h |-> Live(r.st), last_error |-> r.err, result |-> "FAILED",
              deletes |-> IF h.init THEN 1 ELSE 0]

\* deletes: how often `delete account` runs on the object held at entry.  The
\* engine throws after the first delete, and the handler deletes again.
VodozemacAccount_from_pickle(h, pickle_str, key) ==
    LET r == lib_from_pickle("account", pickle_str, key)
    IN  IF key.len # KeyLen
        THEN [h |-> h, last_error |-> ErrKeyLen, result |-> "FAILED", deletes |-> 0]
        ELSE IF r.err = NoError
        THEN [h |-> Live(r.st), last_error |-> NoError, result |-> "OK",
              deletes |-> IF h.init THEN 1 ELSE 0]
        ELSE [h |-> Null(NoAccount), last_error |-> r.err, result |-> "FAILED",
              deletes |-> IF h.init THEN 2 ELSE 0]

\* create_outbound_session as it would be if a one-time key that does not
\* parse were passed on to the key agreement
Account_create_outbound_session_any_otk(h, identity_key_base64, one_time_key_base64, base) ==
    LET ik  == lib_curve_key_from_base64(identity_key_base64)
        otk == lib_curve_key_from_base64(one_time_key_base64)
    IN  IF ~h.init
        THEN [h |-> h, last_error |-> ErrAccountNotInit, new |-> Null(NoSession)]
        ELSE IF ik.err # NoError
        THEN [h |-> h, last_error |-> ik.err, new |-> Null(NoSession)]
        ELSE [h |-> h, last_error |-> NoError,
              new |-> Live(lib_create_outbound_session(h.st, ik.key, otk.key, base))]

\* new: the VodozemacSession object returned (instantiated in every case)
VodozemacAccount_create_outbound_session(h, identity_key_base64, one_time_key_base64, base) ==
    LET ik  == lib_curve_key_from_base64(identity_key_base64)
        otk == lib_curve_key_from_base64(one_time_key_base64)
    IN  IF ~h.init
        THEN [h |-> h, last_error |-> ErrAccountNotInit, new |-> Null(NoSession)]
        ELSE IF ik.err # NoError
        THEN [h |-> h, last_error |-> ik.err, new |-> Null(NoSession)]
        ELSE IF otk.err # NoError
        THEN [h |-> h, last_error |-> otk.err, new |-> Null(NoSession)]
        ELSE [h |-> h, last_error |-> NoError,
              new |-> Live(lib_create_outbound_session(h.st, ik.key, otk.key, base))]

\* create_inbound_session as it would be if the engine worked on a copy of the
\* account, so that the one-time key stayed in the pool
Account_create_inbound_session_on_copy(h, identity_key_base64, message_type, ciphertext) ==
    LET ik == lib_curve_key_from_base64(identity_key_base64)
        pm == lib_olm_message_from_parts(message_type, ciphertext)
        r  == lib_create_inbound_session(h.st, ik.key, pm.msg)
        ok == h.init /\ ik.err = NoError /\ pm.err = NoError /\ r.err = NoError
    IN  [h |-> h, last_error |-> IF ok THEN NoError ELSE "failed", made |-> ok,
         new |-> IF ok THEN Live(r.session) ELSE Null(NoSession),
         result |-> [success |-> ok, plaintext |-> String_from_utf8(r.plaintext),
                     error |-> IF ok THEN NoError ELSE "failed"]]

\* create_inbound_session as it would be if a failure still handed back a
\* session object, as create_outbound_session does
Account_create_inbound_session_instantiating(h, identity_key_base64, message_type, ciphertext) ==
    LET ik == lib_curve_key_from_base64(identity_key_base64)
        pm == lib_olm_message_from_parts(message_type, ciphertext)
        r  == lib_create_inbound_session(h.st, ik.key, pm.msg)
        fail(e) == [h |-> h, last_error |-> e, made |-> TRUE,
                    new |-> Null(NoSession),
                    result |-> [success |-> FALSE, plaintext |-> <<>>, error |-> e]]
    IN  IF ~h.init THEN fail(ErrAccountNotInit)
        ELSE IF ik.err # NoError THEN fail(ik.err)
        ELSE IF pm.err # NoError THEN fail(pm.err)
        ELSE IF r.err # NoError THEN fail(r.err)
        ELSE [h |-> Live(r.account), last_error |-> NoError, made |-> TRUE,
              new |-> Live(r.session),
              result |-> [success |-> TRUE,
                          plaintext |-> String_from_utf8(r.plaintext)]]

\* result: the Dictionary returned; new: the session object in result["session"]
VodozemacAccount_create_inbound_session(h, identity_key_base64, message_type, ciphertext) ==
    LET ik == lib_curve_key_from_base64(identity_key_base64)
        pm == lib_olm_message_from_parts(message_type, ciphertext)
        r  == lib_create_inbound_session(h.st, ik.key, pm.msg)
        fail(e) == [h |-> h, last_error |-> e, made |-> FALSE,
                    new |-> Null(NoSession),
                    result |-> [success |-> FALSE, plaintext |-> <<>>, error |-> e]]
    IN  IF ~h.init THEN fail(ErrAccountNotInit)
        ELSE IF ik.err # NoError THEN fail(ik.err)
        ELSE IF pm.err # NoError THEN fail(pm.err)
        ELSE IF r.err # NoError THEN fail(r.err)
        ELSE [h |-> Live(r.account), last_error |-> NoError, made |-> TRUE,
              new |-> Live(r.session),
              result |-> [success |-> TRUE,
                          plaintext |-> String_from_utf8(r.plaintext)]]

VodozemacAccount_get_last_error(e) == e

(***************************************************************************)
(* VodozemacSession.                                                       *)
(***************************************************************************)
\* _set_session: the old object, if any, is deleted once
VodozemacSession_set_session(h, new_session) ==
    [h |-> new_session, deletes |-> IF h.init THEN 1 ELSE 0]

VodozemacSession_get_session_id(h) ==
    IF ~h.init
    THEN [h |-> h, last_error |-> ErrSessionNotInit, result |-> ""]
    ELSE [h |-> h, last_error |-> NoError, result |-> lib_session_id(h.st)]

\* session_matches as it would be if it tried the message on the session
Session_session_matches_by_decrypt(h, message_type, ciphertext) ==
    LET pm == lib_olm_message_from_parts(message_type, ciphertext)
        d  == lib_session_decrypt(h.st, pm.msg)
    IN  IF ~h.init
        THEN [h |-> h, last_error |-> ErrSessionNotInit, result |-> FALSE]
        ELSE IF pm.err # NoError
        THEN [h |-> h, last_error |-> pm.err, result |-> FALSE]
        ELSE [h |-> Live(d.st), last_error |-> NoError,
              result |-> d.err = NoError]

VodozemacSession_session_matches(h, message_type, ciphertext) ==
    LET pm == lib_olm_message_from_parts(message_type, ciphertext)
    IN  IF ~h.init
        THEN [h |-> h, last_error |-> ErrSessionNotInit, result |-> FALSE]
        ELSE IF pm.err # NoError
        THEN [h |-> h, last_error |-> pm.err, result |-> FALSE]
        ELSE [h |-> h, last_error |-> NoError,
              result |-> lib_session_matches(h.st, pm.msg)]

VodozemacSession_encrypt(h, plaintext) ==
    LET e == lib_session_encrypt(h.st, String_utf8(plaintext))
    IN  IF ~h.init
        THEN [h |-> h, last_error |-> ErrSessionNotInit,
              result |-> [success |-> FALSE, error |-> ErrSessionNotInit]]
        ELSE [h |-> Live(e.st), last_error |-> NoError,
              result |-> [success |-> TRUE, message_type |-> e.msg.kind,
                          ciphertext |-> e.msg]]

\* decrypt as it would be if a failure dropped the session
Session_decrypt_dropping(h, message_type, ciphertext) ==
    LET pm == lib_olm_message_from_parts(message_type, ciphertext)
        d  == lib_session_decrypt(h.st, pm.msg)
    IN  IF h.init /\ pm.err = NoError /\ d.err = NoError
        THEN [h |-> Live(d.st), last_error |-> NoError,
              result |-> [success |-> TRUE, plaintext |-> String_latin1(d.plaintext)]]
        ELSE [h |-> Null(NoSession), last_error |-> "failed",
              result |-> [success |-> FALSE, error |-> "failed"]]

VodozemacSession_decrypt(h, message_type, ciphertext) ==
    LET pm == lib_olm_message_from_parts(message_type, ciphertext)
        d  == lib_session_decrypt(h.st, pm.msg)
        fail(e) == [h |-> h, last_error |-> e,
                    result |-> [success |-> FALSE, error |-> e]]
    IN  IF ~h.init THEN fail(ErrSessionNotInit)
        ELSE IF pm.err # NoError THEN fail(pm.err)
        ELSE IF d.err # NoError THEN fail(d.err)
        ELSE [h |-> Live(d.st), last_error |-> NoError,
              result |-> [success |-> TRUE,
                          plaintext |-> String_latin1(d.plaintext)]]

VodozemacSession_pickle(h, key) ==
    IF ~h.init
    THEN [h |-> h, last_error |-> ErrSessionNotInit, result |-> ""]
    ELSE IF key.len # KeyLen
    THEN [h |-> h, last_error |-> ErrKeyLen, result |-> ""]
    ELSE [h |-> h, last_error |-> NoError,
          result |-> lib_pickle("session", h.st, key)]

\* from_pickle as it would be if a successful load left the old pointer
Session_from_pickle_discarding(h, pickle_str, key) ==
    LET r == lib_from_pickle("session", pickle_str, key)
    IN  IF key.len # KeyLen
        THEN [h |-> h, last_error |-> ErrKeyLen, result |-> "FAILED", deletes |-> 0]
        ELSE IF r.err = NoError
        THEN [h |-> h, last_error |-> NoError, result |-> "OK", deletes |-> 0]
        ELSE [h |-> Null(NoSession), last_error |-> r.err, result |-> "FAILED",
              deletes |-> IF h.init THEN 2 ELSE 0]

VodozemacSession_from_pickle(h, pickle_str, key) ==
    LET r == lib_from_pickle("session", pickle_str, key)
    IN  IF key.len # KeyLen
        THEN [h |-> h, last_error |-> ErrKeyLen, result |-> "FAILED", deletes |-> 0]
        ELSE IF r.err = NoError
        THEN [h |-> Live(r.st), last_error |-> NoError, result |-> "OK",
              deletes |-> IF h.init THEN 1 ELSE 0]
        ELSE [h |-> Null(NoSession), last_error |-> r.err, result |-> "FAILED",
              deletes |-> IF h.init THEN 2 ELSE 0]

VodozemacSession_get_last_error(e) == e

(***************************************************************************)
(* VodozemacGroupSession.                                                  *)
(***************************************************************************)
VodozemacGroupSession_initialize(h, sid) ==
    [h |-> Live(lib_new_group_session(sid)), last_error |-> NoError,
     result |-> "OK", deletes |-> IF h.init THEN 1 ELSE 0]

VodozemacGroupSession_get_session_id(h) ==
    IF ~h.init
    THEN [h |-> h, last_error |-> ErrGroupNotInit, result |-> ""]
    ELSE [h |-> h, last_error |-> NoError, result |-> lib_group_session_id(h.st)]

\* encrypt as it would be if the ratchet were not advanced
GroupSession_encrypt_standing(h, plaintext) ==
    LET e == lib_group_encrypt(h.st, String_utf8(plaintext))
    IN  IF ~h.init
        THEN [h |-> h, last_error |-> ErrGroupNotInit,
              result |-> [success |-> FALSE, error |-> ErrGroupNotInit]]
        ELSE [h |-> h, last_error |-> NoError,
              result |-> [success |-> TRUE, ciphertext |-> e.msg]]

VodozemacGroupSession_encrypt(h, plaintext) ==
    LET e == lib_group_encrypt(h.st, String_utf8(plaintext))
    IN  IF ~h.init
        THEN [h |-> h, last_error |-> ErrGroupNotInit,
              result |-> [success |-> FALSE, error |-> ErrGroupNotInit]]
        ELSE [h |-> Live(e.st), last_error |-> NoError,
              result |-> [success |-> TRUE, ciphertext |-> e.msg]]

\* get_session_key as it would be if a failure left the error slot alone
GroupSession_get_session_key_silent(h) ==
    IF ~h.init
    THEN [h |-> h, last_error |-> NoError, result |-> ""]
    ELSE [h |-> h, last_error |-> NoError, result |-> lib_group_session_key(h.st)]

VodozemacGroupSession_get_session_key(h) ==
    IF ~h.init
    THEN [h |-> h, last_error |-> ErrGroupNotInit, result |-> ""]
    ELSE [h |-> h, last_error |-> NoError, result |-> lib_group_session_key(h.st)]

VodozemacGroupSession_get_message_index(h) ==
    IF ~h.init
    THEN [h |-> h, last_error |-> ErrGroupNotInit, result |-> -1]
    ELSE [h |-> h, last_error |-> NoError, result |-> lib_group_message_index(h.st)]

\* pickle as it would be if pickling gave the session away
GroupSession_pickle_consuming(h, key) ==
    IF ~h.init
    THEN [h |-> h, last_error |-> ErrGroupNotInit, result |-> ""]
    ELSE IF key.len # KeyLen
    THEN [h |-> h, last_error |-> ErrKeyLen, result |-> ""]
    ELSE [h |-> Null(NoGroup), last_error |-> NoError,
          result |-> lib_pickle("group_session", h.st, key)]

VodozemacGroupSession_pickle(h, key) ==
    IF ~h.init
    THEN [h |-> h, last_error |-> ErrGroupNotInit, result |-> ""]
    ELSE IF key.len # KeyLen
    THEN [h |-> h, last_error |-> ErrKeyLen, result |-> ""]
    ELSE [h |-> h, last_error |-> NoError,
          result |-> lib_pickle("group_session", h.st, key)]

VodozemacGroupSession_from_pickle(h, pickle_str, key) ==
    LET r == lib_from_pickle("group_session", pickle_str, key)
    IN  IF key.len # KeyLen
        THEN [h |-> h, last_error |-> ErrKeyLen, result |-> "FAILED", deletes |-> 0]
        ELSE IF r.err = NoError
        THEN [h |-> Live(r.st), last_error |-> NoError, result |-> "OK",
              deletes |-> IF h.init THEN 1 ELSE 0]
        ELSE [h |-> Null(NoGroup), last_error |-> r.err, result |-> "FAILED",
              deletes |-> IF h.init THEN 2 ELSE 0]

VodozemacGroupSession_get_last_error(e) == e

(***************************************************************************)
(* VodozemacInboundGroupSession.                                           *)
(***************************************************************************)
\* initialize_from_session_key as it would be if it parsed its argument as an
\* exported session key, as import_session does
InboundGroupSession_initialize_from_exported_key(h, session_key) ==
    LET k == lib_exported_session_key_from_base64(session_key)
    IN  IF k.err # NoError
        THEN [h |-> Null(NoInbound), last_error |-> k.err, result |-> "FAILED",
              deletes |-> IF h.init THEN 1 ELSE 0]
        ELSE [h |-> Live(lib_new_inbound_group_session(k.key)),
              last_error |-> NoError, result |-> "OK",
              deletes |-> IF h.init THEN 1 ELSE 0]

\* the key is parsed before the old object is deleted: a key that does not
\* parse leaves one delete, in the handler
VodozemacInboundGroupSession_initialize_from_session_key(h, session_key) ==
    LET k == lib_session_key_from_base64(session_key)
    IN  IF k.err # NoError
        THEN [h |-> Null(NoInbound), last_error |-> k.err, result |-> "FAILED",
              deletes |-> IF h.init THEN 1 ELSE 0]
        ELSE [h |-> Live(lib_new_inbound_group_session(k.key)),
              last_error |-> NoError, result |-> "OK",
              deletes |-> IF h.init THEN 1 ELSE 0]

\* import_session as it would be if the export's anchor were ignored
InboundGroupSession_import_from_start(h, exported_key) ==
    LET k == lib_exported_session_key_from_base64(exported_key)
    IN  IF k.err # NoError
        THEN [h |-> Null(NoInbound), last_error |-> k.err, result |-> "FAILED",
              deletes |-> IF h.init THEN 1 ELSE 0]
        ELSE [h |-> Live([sid |-> k.key.sid, first |-> 0, latest |-> k.key.index]),
              last_error |-> NoError, result |-> "OK",
              deletes |-> IF h.init THEN 1 ELSE 0]

VodozemacInboundGroupSession_import_session(h, exported_key) ==
    LET k == lib_exported_session_key_from_base64(exported_key)
    IN  IF k.err # NoError
        THEN [h |-> Null(NoInbound), last_error |-> k.err, result |-> "FAILED",
              deletes |-> IF h.init THEN 1 ELSE 0]
        ELSE [h |-> Live(lib_import_inbound_group_session(k.key)),
              last_error |-> NoError, result |-> "OK",
              deletes |-> IF h.init THEN 1 ELSE 0]

VodozemacInboundGroupSession_get_session_id(h) ==
    IF ~h.init
    THEN [h |-> h, last_error |-> ErrInboundNotInit, result |-> ""]
    ELSE [h |-> h, last_error |-> NoError, result |-> lib_inbound_session_id(h.st)]

VodozemacInboundGroupSession_decrypt(h, ciphertext) ==
    LET pm == lib_megolm_message_from_base64(ciphertext)
        d  == lib_inbound_decrypt(h.st, pm.msg)
        fail(e) == [h |-> h, last_error |-> e,
                    result |-> [success |-> FALSE, error |-> e]]
    IN  IF ~h.init THEN fail(ErrInboundNotInit)
        ELSE IF pm.err # NoError THEN fail(pm.err)
        ELSE IF d.err # NoError THEN fail(d.err)
        ELSE [h |-> Live(d.st), last_error |-> NoError,
              result |-> [success |-> TRUE,
                          plaintext |-> String_latin1(d.plaintext),
                          message_index |-> d.message_index]]

VodozemacInboundGroupSession_get_first_known_index(h) ==
    IF ~h.init
    THEN [h |-> h, last_error |-> ErrInboundNotInit, result |-> -1]
    ELSE [h |-> h, last_error |-> NoError, result |-> lib_first_known_index(h.st)]

\* a 64-bit integer is its high word (signed) and its low word (unsigned):
\* its value is hi * 2^32 + lo.  static_cast<uint32_t> keeps the low word.
int64_t(hi, lo) == [hi |-> hi, lo |-> lo]
uint32_t(x) == x.lo

VodozemacInboundGroupSession_export_at_index(h, message_index) ==
    LET x == lib_export_at(h.st, uint32_t(message_index))
    IN  IF ~h.init
        THEN [h |-> h, last_error |-> ErrInboundNotInit,
              result |-> [success |-> FALSE, error |-> ErrInboundNotInit]]
        ELSE IF x.err # NoError
        THEN [h |-> h, last_error |-> x.err,
              result |-> [success |-> FALSE, error |-> x.err]]
        ELSE [h |-> h, last_error |-> NoError,
              result |-> [success |-> TRUE, exported_key |-> x.key]]

VodozemacInboundGroupSession_pickle(h, key) ==
    IF ~h.init
    THEN [h |-> h, last_error |-> ErrInboundNotInit, result |-> ""]
    ELSE IF key.len # KeyLen
    THEN [h |-> h, last_error |-> ErrKeyLen, result |-> ""]
    ELSE [h |-> h, last_error |-> NoError,
          result |-> lib_pickle("inbound_group_session", h.st, key)]

\* from_pickle as it would be without the check of the key's length
InboundGroupSession_from_pickle_any_key(h, pickle_str, key) ==
    LET r == lib_from_pickle("inbound_group_session", pickle_str, key)
    IN  IF r.err = NoError
        THEN [h |-> Live(r.st), last_error |-> NoError, result |-> "OK",
              deletes |-> IF h.init THEN 1 ELSE 0]
        ELSE [h |-> Null(NoInbound), last_error |-> r.err, result |-> "FAILED",
              deletes |-> IF h.init THEN 2 ELSE 0]

VodozemacInboundGroupSession_from_pickle(h, pickle_str, key) ==
    LET r == lib_from_pickle("inbound_group_session", pickle_str, key)
    IN  IF key.len # KeyLen
        THEN [h |-> h, last_error |-> ErrKeyLen, result |-> "FAILED", deletes |-> 0]
        ELSE IF r.err = NoError
        THEN [h |-> Live(r.st), last_error |-> NoError, result |-> "OK",
              deletes |-> IF h.init THEN 1 ELSE 0]
        ELSE [h |-> Null(NoInbound), last_error |-> r.err, result |-> "FAILED",
              deletes |-> IF h.init THEN 2 ELSE 0]

VodozemacInboundGroupSession_get_last_error(e) == e

(***************************************************************************)
(* What the host program passes in.                                        *)
(***************************************************************************)
\* the counts the host passes to generate_one_time_keys
Counts == {-1, 0, 1, 2}
MessageTypes == {0, 1}

\* one bit of the first byte flipped
FlipBit(b) ==
    IF b = <<>> THEN <<1>> ELSE <<Head(b) + 1 - 2 * (Head(b) % 2)>> \o Tail(b)

\* envelopes that differ from a genuine one: in the body, the index, the MAC
Tampered(m) ==
    { [m EXCEPT !.body = FlipBit(@)], [m EXCEPT !.idx = @ + 1],
      [m EXCEPT !.mac = [@ EXCEPT !.from = "forged"]] }

Envelopes ==
    wire \cup UNION {Tampered(m) : m \in wire} \cup {BadMessage}

BadBlob ==
    [type |-> "none", version |-> 0, key |-> 0, st |-> NoAccount, intact |-> FALSE]

\* pickle strings that differ from a genuine one: tampered, or of another version
Blobs ==
    pickles \cup {[b EXCEPT !.intact = FALSE] : b \in pickles}
            \cup {[b EXCEPT !.version = PickleVersion + 1] : b \in pickles}
            \cup {BadBlob}

\* high words of the 64-bit indices the host passes to export_at_index
HighWords == {-1, 0, 1}

\* group messages altered in transit
GroupTampered(m) ==
    { [m EXCEPT !.body = FlipBit(@)], [m EXCEPT !.index = @ + 1],
      [m EXCEPT !.auth = [@ EXCEPT !.sid = -1]] }

GroupEnvelopes ==
    group_wire \cup UNION {GroupTampered(m) : m \in group_wire} \cup {BadGroupMessage}

\* the session keys a group session has had, and the keys exported from them
SessionKeys(g) ==
    IF group_session[g].init
    THEN {[kind |-> "session_key", sid |-> group_session[g].st.sid, index |-> n] :
             n \in 0..group_session[g].st.index}
    ELSE {}

ExportedKeys(g) ==
    {[k EXCEPT !.kind = "exported"] : k \in SessionKeys(g)}

(***************************************************************************)
(* The effect of deleting an object twice is undefined: the process aborts *)
(* or runs on.                                                             *)
(***************************************************************************)
Heap(deletes) ==
    IF deletes >= 2
    THEN double_free' = TRUE /\ crashed' \in BOOLEAN
    ELSE UNCHANGED <<double_free, crashed>>

(***************************************************************************)
(* Calls on an account object.                                             *)
(***************************************************************************)
AccountCall(a, r) ==
    /\ account' = [account EXCEPT ![a] = r.h]
    /\ account_last_error' = [account_last_error EXCEPT ![a] = r.last_error]

AccountInitialize(a) ==
    /\ nextIdent < MaxIdent
    /\ AccountCall(a, VodozemacAccount_initialize(account[a], nextIdent + 1))
    /\ nextIdent' = nextIdent + 1
    /\ UNCHANGED <<scenario, hostEnt, consumed, megEnt, session, session_last_error, wire, pickles,
                   double_free, crashed>>

AccountGetIdentityKeys(a) ==
    /\ AccountCall(a, VodozemacAccount_get_identity_keys(account[a]))
    /\ UNCHANGED <<scenario, hostEnt, consumed, megEnt, session, session_last_error, nextIdent, wire,
                   pickles, double_free, crashed>>

AccountGenerateOneTimeKeys(a, count) ==
    /\ account[a].st.next + count <= MaxKeyId
    /\ AccountCall(a, VodozemacAccount_generate_one_time_keys(account[a], count))
    /\ UNCHANGED <<scenario, hostEnt, consumed, megEnt, session, session_last_error, nextIdent, wire,
                   pickles, double_free, crashed>>

AccountGetOneTimeKeys(a) ==
    /\ AccountCall(a, VodozemacAccount_get_one_time_keys(account[a]))
    /\ UNCHANGED <<scenario, hostEnt, consumed, megEnt, session, session_last_error, nextIdent, wire,
                   pickles, double_free, crashed>>

AccountMarkKeysAsPublished(a) ==
    /\ AccountCall(a, VodozemacAccount_mark_keys_as_published(account[a]))
    /\ UNCHANGED <<scenario, hostEnt, consumed, megEnt, session, session_last_error, nextIdent, wire,
                   pickles, double_free, crashed>>

AccountGetMaxNumberOfOneTimeKeys(a) ==
    /\ AccountCall(a, VodozemacAccount_get_max_number_of_one_time_keys(account[a]))
    /\ UNCHANGED <<scenario, hostEnt, consumed, megEnt, session, session_last_error, nextIdent, wire,
                   pickles, double_free, crashed>>

\* the host keeps the string a successful pickle returns
Keep(r) ==
    /\ r.last_error = NoError =>
          (r.result \in pickles \/ Cardinality(pickles) < MaxPickles)
    /\ pickles' = IF r.last_error = NoError THEN pickles \cup {r.result} ELSE pickles

AccountPickle(a, key) ==
    LET r == VodozemacAccount_pickle(account[a], key)
    IN  /\ Keep(r)
        /\ AccountCall(a, r)
        /\ UNCHANGED <<scenario, hostEnt, consumed, megEnt, session, session_last_error, nextIdent, wire,
                       double_free, crashed>>

\* the history notes which of the account's keys were used before the call
AccountFromPickle(a, pickle_str, key) ==
    LET r == VodozemacAccount_from_pickle(account[a], pickle_str, key)
    IN  /\ AccountCall(a, r)
        /\ Heap(r.deletes)
        /\ consumed' = {IF c.a = a THEN [c EXCEPT !.reloaded = TRUE] ELSE c : c \in consumed}
        /\ UNCHANGED <<scenario, hostEnt, megEnt, session, session_last_error, nextIdent, wire,
                       pickles>>

\* the lowest session object not yet in use
FreeSession ==
    CHOOSE s \in SessionIds : ~session[s].born /\ \A t \in 1..(s - 1) : session[t].born

AccountCreateOutboundSession(a, identity_key_base64, one_time_key_base64) ==
    LET r == VodozemacAccount_create_outbound_session(account[a],
                 identity_key_base64, one_time_key_base64, FreeSession)
    IN  /\ \E s \in SessionIds : ~session[s].born
        /\ AccountCall(a, r)
        /\ session' = [session EXCEPT ![FreeSession] =
               Born(VodozemacSession_set_session(Null(NoSession), r.new).h)]
        /\ UNCHANGED <<scenario, hostEnt, consumed, megEnt, session_last_error, nextIdent, wire, pickles,
                       double_free, crashed>>

AccountCreateInboundSession(a, identity_key_base64, message_type, ciphertext) ==
    LET r == VodozemacAccount_create_inbound_session(account[a],
                 identity_key_base64, message_type, ciphertext)
    IN  /\ r.made => \E s \in SessionIds : ~session[s].born
        /\ AccountCall(a, r)
        /\ session' = IF r.made
                      THEN [session EXCEPT ![FreeSession] =
                               Born(VodozemacSession_set_session(Null(NoSession), r.new).h)]
                      ELSE session
        /\ consumed' = IF r.made
                       THEN consumed \cup {[a |-> a, key |-> ciphertext.keys.otk,
                                            reloaded |-> FALSE]}
                       ELSE consumed
        /\ UNCHANGED <<scenario, hostEnt, megEnt, session_last_error, nextIdent, wire, pickles,
                       double_free, crashed>>

\* get_last_error is const: it returns the slot and writes nothing
AccountGetLastError(a) ==
    /\ VodozemacAccount_get_last_error(account_last_error[a]) \in STRING
    /\ UNCHANGED vars

(***************************************************************************)
(* Calls on a session object.                                              *)
(***************************************************************************)
SessionCall(s, r) ==
    /\ session[s].born
    /\ session' = [session EXCEPT ![s] = Born(r.h)]
    /\ session_last_error' = [session_last_error EXCEPT ![s] = r.last_error]

SessionGetSessionId(s) ==
    /\ SessionCall(s, VodozemacSession_get_session_id(session[s]))
    /\ UNCHANGED <<scenario, hostEnt, consumed, megEnt, account, account_last_error, nextIdent, wire,
                   pickles, double_free, crashed>>

SessionMatches(s, message_type, ciphertext) ==
    /\ SessionCall(s, VodozemacSession_session_matches(session[s], message_type, ciphertext))
    /\ UNCHANGED <<scenario, hostEnt, consumed, megEnt, account, account_last_error, nextIdent, wire,
                   pickles, double_free, crashed>>

\* the host keeps the envelope a successful encrypt returns
SessionEncrypt(s, plaintext) ==
    LET r == VodozemacSession_encrypt(session[s], plaintext)
    IN  /\ SessionCall(s, r)
        /\ r.result.success =>
              /\ r.result.ciphertext.idx <= MaxIdx
              /\ r.result.ciphertext.epoch <= MaxEpoch
              /\ r.result.ciphertext \in wire \/ Cardinality(wire) < MaxWire
        /\ wire' = IF r.result.success THEN wire \cup {r.result.ciphertext} ELSE wire
        /\ UNCHANGED <<scenario, hostEnt, consumed, megEnt, account, account_last_error, nextIdent,
                       pickles, double_free, crashed>>

SessionDecrypt(s, message_type, ciphertext) ==
    /\ SessionCall(s, VodozemacSession_decrypt(session[s], message_type, ciphertext))
    /\ UNCHANGED <<scenario, hostEnt, consumed, megEnt, account, account_last_error, nextIdent, wire,
                   pickles, double_free, crashed>>

SessionPickle(s, key) ==
    LET r == VodozemacSession_pickle(session[s], key)
    IN  /\ Keep(r)
        /\ SessionCall(s, r)
        /\ UNCHANGED <<scenario, hostEnt, consumed, megEnt, account, account_last_error, nextIdent, wire,
                       double_free, crashed>>

SessionFromPickle(s, pickle_str, key) ==
    LET r == VodozemacSession_from_pickle(session[s], pickle_str, key)
    IN  /\ SessionCall(s, r)
        /\ Heap(r.deletes)
        /\ UNCHANGED <<scenario, hostEnt, consumed, megEnt, account, account_last_error, nextIdent, wire,
                       pickles>>

SessionGetLastError(s) ==
    /\ session[s].born
    /\ VodozemacSession_get_last_error(session_last_error[s]) \in STRING
    /\ UNCHANGED vars

(***************************************************************************)
(* Calls on a group session object.                                        *)
(***************************************************************************)
GroupCall(g, r) ==
    /\ group_session' = [group_session EXCEPT ![g] = r.h]
    /\ group_last_error' = [group_last_error EXCEPT ![g] = r.last_error]

GroupInitialize(g) ==
    /\ nextIdent < MaxIdent
    /\ GroupCall(g, VodozemacGroupSession_initialize(group_session[g], nextIdent + 1))
    /\ nextIdent' = nextIdent + 1
    /\ UNCHANGED <<scenario, hostEnt, consumed, olmEnt, inbound_session, inbound_last_error, group_wire,
                   wire, pickles, double_free, crashed>>

GroupGetSessionId(g) ==
    /\ GroupCall(g, VodozemacGroupSession_get_session_id(group_session[g]))
    /\ UNCHANGED <<scenario, hostEnt, consumed, olmEnt, inbound_session, inbound_last_error, group_wire,
                   nextIdent, wire, pickles, double_free, crashed>>

\* the host keeps the message a successful encrypt returns
GroupEncrypt(g, plaintext) ==
    LET r == VodozemacGroupSession_encrypt(group_session[g], plaintext)
    IN  /\ GroupCall(g, r)
        /\ r.result.success =>
              /\ r.result.ciphertext.index <= MaxIdx
              /\ r.result.ciphertext \in group_wire \/ Cardinality(group_wire) < MaxWire
        /\ group_wire' = IF r.result.success
                         THEN group_wire \cup {r.result.ciphertext} ELSE group_wire
        /\ UNCHANGED <<scenario, hostEnt, consumed, olmEnt, inbound_session, inbound_last_error,
                       nextIdent, wire, pickles, double_free, crashed>>

GroupGetSessionKey(g) ==
    /\ GroupCall(g, VodozemacGroupSession_get_session_key(group_session[g]))
    /\ UNCHANGED <<scenario, hostEnt, consumed, olmEnt, inbound_session, inbound_last_error, group_wire,
                   nextIdent, wire, pickles, double_free, crashed>>

GroupGetMessageIndex(g) ==
    /\ GroupCall(g, VodozemacGroupSession_get_message_index(group_session[g]))
    /\ UNCHANGED <<scenario, hostEnt, consumed, olmEnt, inbound_session, inbound_last_error, group_wire,
                   nextIdent, wire, pickles, double_free, crashed>>

GroupPickle(g, key) ==
    LET r == VodozemacGroupSession_pickle(group_session[g], key)
    IN  /\ Keep(r)
        /\ GroupCall(g, r)
        /\ UNCHANGED <<scenario, hostEnt, consumed, olmEnt, inbound_session, inbound_last_error,
                       group_wire, nextIdent, wire, double_free, crashed>>

GroupFromPickle(g, pickle_str, key) ==
    LET r == VodozemacGroupSession_from_pickle(group_session[g], pickle_str, key)
    IN  /\ GroupCall(g, r)
        /\ Heap(r.deletes)
        /\ UNCHANGED <<scenario, hostEnt, consumed, olmEnt, inbound_session, inbound_last_error,
                       group_wire, nextIdent, wire, pickles>>

GroupGetLastError(g) ==
    /\ VodozemacGroupSession_get_last_error(group_last_error[g]) \in STRING
    /\ UNCHANGED vars

(***************************************************************************)
(* Calls on an inbound group session object.                               *)
(***************************************************************************)
InboundCall(i, r) ==
    /\ inbound_session' = [inbound_session EXCEPT ![i] = r.h]
    /\ inbound_last_error' = [inbound_last_error EXCEPT ![i] = r.last_error]

InboundInitializeFromSessionKey(i, session_key) ==
    /\ InboundCall(i, VodozemacInboundGroupSession_initialize_from_session_key(
                          inbound_session[i], session_key))
    /\ UNCHANGED <<scenario, hostEnt, consumed, olmEnt, group_session, group_last_error, group_wire,
                   nextIdent, wire, pickles, double_free, crashed>>

InboundImportSession(i, exported_key) ==
    /\ InboundCall(i, VodozemacInboundGroupSession_import_session(
                          inbound_session[i], exported_key))
    /\ UNCHANGED <<scenario, hostEnt, consumed, olmEnt, group_session, group_last_error, group_wire,
                   nextIdent, wire, pickles, double_free, crashed>>

InboundGetSessionId(i) ==
    /\ InboundCall(i, VodozemacInboundGroupSession_get_session_id(inbound_session[i]))
    /\ UNCHANGED <<scenario, hostEnt, consumed, olmEnt, group_session, group_last_error, group_wire,
                   nextIdent, wire, pickles, double_free, crashed>>

InboundDecrypt(i, ciphertext) ==
    /\ InboundCall(i, VodozemacInboundGroupSession_decrypt(inbound_session[i], ciphertext))
    /\ UNCHANGED <<scenario, hostEnt, consumed, olmEnt, group_session, group_last_error, group_wire,
                   nextIdent, wire, pickles, double_free, crashed>>

InboundGetFirstKnownIndex(i) ==
    /\ InboundCall(i, VodozemacInboundGroupSession_get_first_known_index(
                          inbound_session[i]))
    /\ UNCHANGED <<scenario, hostEnt, consumed, olmEnt, group_session, group_last_error, group_wire,
                   nextIdent, wire, pickles, double_free, crashed>>

InboundExportAtIndex(i, message_index) ==
    /\ InboundCall(i, VodozemacInboundGroupSession_export_at_index(
                          inbound_session[i], message_index))
    /\ UNCHANGED <<scenario, hostEnt, consumed, olmEnt, group_session, group_last_error, group_wire,
                   nextIdent, wire, pickles, double_free, crashed>>

InboundPickle(i, key) ==
    LET r == VodozemacInboundGroupSession_pickle(inbound_session[i], key)
    IN  /\ Keep(r)
        /\ InboundCall(i, r)
        /\ UNCHANGED <<scenario, hostEnt, consumed, olmEnt, group_session, group_last_error, group_wire,
                       nextIdent, wire, double_free, crashed>>

InboundFromPickle(i, pickle_str, key) ==
    LET r == VodozemacInboundGroupSession_from_pickle(inbound_session[i], pickle_str, key)
    IN  /\ InboundCall(i, r)
        /\ Heap(r.deletes)
        /\ UNCHANGED <<scenario, hostEnt, consumed, olmEnt, group_session, group_last_error, group_wire,
                       nextIdent, wire, pickles>>

InboundGetLastError(i) ==
    /\ VodozemacInboundGroupSession_get_last_error(inbound_last_error[i]) \in STRING
    /\ UNCHANGED vars

(***************************************************************************)
(* Calls by threads of the host on one account.  The wrapper takes no      *)
(* lock: a call that replaces the object is the steps of its code, and the *)
(* steps of two threads interleave unless the host holds a mutex of its    *)
(* own around each call.  mutex is "unused" when the host keeps none.      *)
(***************************************************************************)
Threads == {"T1", "T2"}

\* a call in progress: the method and its arguments
Call(op, pickle_str, key) == [op |-> op, pickle_str |-> pickle_str, key |-> key]

\* a thread entering a call as it would without taking the mutex
Thread_call_unlocked(t, a, call) ==
    /\ thread[t].pc = "idle"
    /\ call.op = "initialize" =>
          nextIdent + Cardinality({u \in Threads : thread[u].call.op = "initialize"
                                                     /\ thread[u].pc # "idle"}) < MaxIdent
    /\ thread' = [thread EXCEPT ![t] = [pc |-> "called", call |-> call,
                                         entry |-> account[a], result |-> "none"]]
    /\ UNCHANGED <<scenario, olmEnt, megEnt, nextIdent, wire, pickles, consumed,
                   double_free, crashed, mutex, freed, use_after_free>>

\* the thread takes the mutex, when the host keeps one, and enters initialize
\* or from_pickle with a key of 32 bytes; entry notes what the account held
ThreadCall(t, a, call) ==
    /\ thread[t].pc = "idle"
    /\ mutex \in {"unused", "free"}
    /\ call.op = "initialize" =>
          nextIdent + Cardinality({u \in Threads : thread[u].call.op = "initialize"
                                                     /\ thread[u].pc # "idle"}) < MaxIdent
    /\ thread' = [thread EXCEPT ![t] = [pc |-> "called", call |-> call,
                                         entry |-> account[a], result |-> "none"]]
    /\ mutex' = IF mutex = "free" THEN t ELSE mutex
    /\ UNCHANGED <<scenario, olmEnt, megEnt, nextIdent, wire, pickles, consumed,
                   double_free, crashed, freed, use_after_free>>

\* `if (account) { delete account; }`: the pointer keeps its value
ThreadDelete(t, a) ==
    /\ thread[t].pc = "called"
    /\ thread' = [thread EXCEPT ![t].pc = "deleted"]
    /\ Heap(IF account[a].init /\ freed[a] THEN 2 ELSE 0)
    /\ freed' = [freed EXCEPT ![a] = account[a].init]
    /\ UNCHANGED <<scenario, olmEnt, megEnt, nextIdent, wire, pickles, consumed, mutex,
                   use_after_free>>

\* `account = new ...; last_error = ""; return OK;`, or the handler of what
\* the engine throws: `if (account) { delete account; } account = nullptr;
\* return FAILED;`.  The call returns, and the thread gives the mutex back.
ThreadAssign(t, a) ==
    LET call   == thread[t].call
        r      == lib_from_pickle("account", call.pickle_str, call.key)
        throws == call.op = "from_pickle" /\ r.err # NoError
    IN  /\ thread[t].pc = "deleted"
        /\ account' = [account EXCEPT ![a] =
               IF throws THEN Null(NoAccount)
               ELSE IF call.op = "initialize" THEN Live(lib_new_account(nextIdent + 1))
               ELSE Live(r.st)]
        /\ account_last_error' = [account_last_error EXCEPT ![a] =
               IF throws THEN r.err ELSE NoError]
        /\ Heap(IF throws /\ account[a].init /\ freed[a] THEN 2 ELSE 0)
        /\ freed' = [freed EXCEPT ![a] = FALSE]
        /\ nextIdent' = IF call.op = "initialize" THEN nextIdent + 1 ELSE nextIdent
        /\ thread' = [thread EXCEPT ![t] =
               [pc |-> "idle", call |-> Call("none", BadBlob, PickleKey(KeyLen, 1)),
                entry |-> Null(NoAccount),
                result |-> IF throws THEN "FAILED" ELSE "OK"]]
        /\ mutex' = IF mutex = t THEN "free" ELSE mutex
        /\ UNCHANGED <<scenario, megEnt, session, session_last_error, wire, pickles,
                       consumed, use_after_free>>

\* pickle, under the mutex when the host keeps one: it reads the object the
\* pointer refers to, and reading a deleted object is undefined
ThreadPickle(t, a, key) ==
    LET r == VodozemacAccount_pickle(account[a], key)
    IN  /\ thread[t].pc = "idle"
        /\ mutex \in {"unused", "free"}
        /\ Keep(r)
        /\ AccountCall(a, r)
        /\ thread' = [thread EXCEPT ![t] =
               [pc |-> "idle", call |-> Call("none", BadBlob, PickleKey(KeyLen, 1)),
                entry |-> Null(NoAccount),
                result |-> IF r.last_error = NoError THEN "pickled" ELSE "empty"]]
        /\ IF account[a].init /\ freed[a]
           THEN use_after_free' = TRUE /\ crashed' \in BOOLEAN
           ELSE UNCHANGED <<use_after_free, crashed>>
        /\ UNCHANGED <<scenario, megEnt, session, session_last_error, nextIdent, wire,
                       consumed, double_free, mutex, freed>>

(***************************************************************************)
(* The state after construction, and the steps of the host program.  The   *)
(* host runs one of several scenarios, which differ in the objects it      *)
(* drives and in what it passes to them.                                   *)
(***************************************************************************)
Scenarios == {"account", "persist", "pairwise", "group", "inbound", "threads"}

Init ==
    /\ scenario \in Scenarios
    /\ account = [a \in Accounts |-> Null(NoAccount)]
    /\ account_last_error = [a \in Accounts |-> NoError]
    /\ session = [s \in SessionIds |->
                     [born |-> FALSE, init |-> FALSE, st |-> NoSession]]
    /\ session_last_error = [s \in SessionIds |-> NoError]
    /\ group_session = [g \in GroupIds |-> Null(NoGroup)]
    /\ group_last_error = [g \in GroupIds |-> NoError]
    /\ inbound_session = [i \in InboundIds |-> Null(NoInbound)]
    /\ inbound_last_error = [i \in InboundIds |-> NoError]
    /\ group_wire = {}
    /\ nextIdent = 0
    /\ wire = {}
    /\ pickles = {}
    /\ consumed = {}
    /\ double_free = FALSE
    /\ crashed = FALSE
    /\ thread = [t \in Threads |->
                    [pc |-> "idle", call |-> Call("none", BadBlob, PickleKey(KeyLen, 1)),
                     entry |-> Null(NoAccount), result |-> "none"]]
    /\ mutex \in IF scenario = "threads" THEN {"unused", "free"} ELSE {"unused"}
    /\ freed = [a \in Accounts |-> FALSE]
    /\ use_after_free = FALSE

\* pre-key messages a peer would send to the account after an outbound key
\* agreement with its identity key and one of its one-time keys
PeerPreKey(ident, k, p) ==
    lib_session_encrypt(
        lib_create_outbound_session(lib_new_account(0), IdentityKey(ident),
                                    CurveKey(ident, k), 0),
        String_utf8(p)).msg

PeerPreKeys(a) ==
    { PeerPreKey(account[a].st.ident, k, <<65, 233>>) : k \in 0..(MaxKeyId - 1) }

PeerEnvelopes(a) ==
    PeerPreKeys(a) \cup UNION {Tampered(m) : m \in PeerPreKeys(a)}
                   \cup {[m EXCEPT !.kind = 1] : m \in PeerPreKeys(a)}
                   \cup {BadMessage}

\* the objects of a kind the host drives in a scenario; none once the process
\* has aborted
Driven(sc, objects) == IF scenario = sc /\ ~crashed THEN objects ELSE {}

\* a responder account on its own: every account method, with the peers'
\* messages as inputs
AccountNext ==
    \/ \E a \in Driven("account", Responders) : AccountInitialize(a)
    \/ \E a \in Driven("account", Responders) : AccountGetIdentityKeys(a)
    \/ \E a \in Driven("account", Responders), count \in Counts : AccountGenerateOneTimeKeys(a, count)
    \/ \E a \in Driven("account", Responders) : AccountGetOneTimeKeys(a)
    \/ \E a \in Driven("account", Responders) : AccountMarkKeysAsPublished(a)
    \/ \E a \in Driven("account", Responders) : AccountGetMaxNumberOfOneTimeKeys(a)
    \/ \E a \in Driven("account", Responders), key \in HostKeys : AccountPickle(a, key)
    \/ \E a \in Driven("account", Responders), b \in Blobs, key \in PickleKeys : AccountFromPickle(a, b, key)
    \/ \E a \in Driven("account", Responders), ik \in {IdentityKey(0), BadKey} :
          \E c \in PeerEnvelopes(a) : AccountCreateInboundSession(a, ik, c.kind, c)
    \/ \E a \in Driven("account", Responders) : AccountGetLastError(a)

\* an initiator account and the session it creates: every session method
PersistNext ==
    \/ \E a \in Driven("persist", Initiators) : AccountInitialize(a)
    \/ \E a \in Driven("persist", Initiators), ik \in {IdentityKey(0), BadKey},
          otk \in {CurveKey(0, 0), BadKey} :
          /\ \A s \in SessionIds : ~session[s].born
          /\ AccountCreateOutboundSession(a, ik, otk)
    \/ \E s \in Driven("persist", SessionIds) : SessionGetSessionId(s)
    \/ \E s \in Driven("persist", SessionIds), c \in wire \cup {BadMessage} :
          SessionMatches(s, c.kind, c)
    \/ \E s \in Driven("persist", SessionIds) : SessionEncrypt(s, <<65, 233>>)
    \/ \E s \in Driven("persist", SessionIds), c \in wire \cup {BadMessage} :
          SessionDecrypt(s, c.kind, c)
    \/ \E s \in Driven("persist", SessionIds), key \in HostKeys : SessionPickle(s, key)
    \/ \E s \in Driven("persist", SessionIds), b \in Blobs, key \in PickleKeys : SessionFromPickle(s, b, key)
    \/ \E s \in Driven("persist", SessionIds) : SessionGetLastError(s)

\* two accounts establish sessions with each other and exchange messages
PairwiseNext ==
    \/ \E a \in Driven("pairwise", Accounts) : account[a].init = FALSE /\ AccountInitialize(a)
    \/ \E a \in Driven("pairwise", Responders) : AccountGenerateOneTimeKeys(a, 1)
    \/ \E a \in Driven("pairwise", Initiators), r \in Responders : \E k \in account[r].st.pool :
          AccountCreateOutboundSession(a, IdentityKey(account[r].st.ident),
                                       CurveKey(account[r].st.ident, k))
    \/ \E a \in Driven("pairwise", Responders), i \in Initiators, c \in wire :
          AccountCreateInboundSession(a, IdentityKey(account[i].st.ident), c.kind, c)
    \/ \E s \in Driven("pairwise", SessionIds), p \in Plaintexts : SessionEncrypt(s, p)
    \/ \E s \in Driven("pairwise", SessionIds), c \in Envelopes :
          SessionDecrypt(s, c.kind, c)
    \/ \E s \in Driven("pairwise", SessionIds), c \in wire :
          SessionDecrypt(s, 1 - c.kind, c)
    \/ \E s \in Driven("pairwise", SessionIds), c \in wire : SessionMatches(s, c.kind, c)

\* a group session on its own: every group session method
GroupNext ==
    \/ \E g \in Driven("group", GroupIds) : GroupInitialize(g)
    \/ \E g \in Driven("group", GroupIds) : GroupGetSessionId(g)
    \/ \E g \in Driven("group", GroupIds), p \in Plaintexts : GroupEncrypt(g, p)
    \/ \E g \in Driven("group", GroupIds) : GroupGetSessionKey(g)
    \/ \E g \in Driven("group", GroupIds) : GroupGetMessageIndex(g)
    \/ \E g \in Driven("group", GroupIds), key \in HostKeys : GroupPickle(g, key)
    \/ \E g \in Driven("group", GroupIds), b \in Blobs, key \in PickleKeys : GroupFromPickle(g, b, key)
    \/ \E g \in Driven("group", GroupIds) : GroupGetLastError(g)

\* a group session sends, and an inbound group session built from one of its
\* keys receives: every inbound group session method
InboundNext ==
    \/ \E g \in Driven("inbound", GroupIds) : ~group_session[g].init /\ GroupInitialize(g)
    \/ \E g \in Driven("inbound", GroupIds), p \in Plaintexts : GroupEncrypt(g, p)
    \/ \E i \in Driven("inbound", InboundIds), g \in GroupIds :
          \E k \in SessionKeys(g) \cup {BadSessionKey} :
             InboundInitializeFromSessionKey(i, k)
    \/ \E i \in Driven("inbound", InboundIds), g \in GroupIds :
          \E k \in ExportedKeys(g) \cup {BadSessionKey} : InboundImportSession(i, k)
    \/ \E i \in Driven("inbound", InboundIds) : InboundGetSessionId(i)
    \/ \E i \in Driven("inbound", InboundIds), c \in GroupEnvelopes : InboundDecrypt(i, c)
    \/ \E i \in Driven("inbound", InboundIds) : InboundGetFirstKnownIndex(i)
    \/ \E i \in Driven("inbound", InboundIds), hi \in HighWords, lo \in 0..MaxIdx :
          InboundExportAtIndex(i, int64_t(hi, lo))
    \/ \E i \in Driven("inbound", InboundIds), key \in HostKeys : InboundPickle(i, key)
    \/ \E i \in Driven("inbound", InboundIds), b \in Blobs, key \in PickleKeys : InboundFromPickle(i, b, key)
    \/ \E i \in Driven("inbound", InboundIds) : InboundGetLastError(i)

\* two threads of the host call initialize, from_pickle and pickle on one
\* account, with the calls under a mutex or without one
ThreadsNext ==
    \/ \E t \in Driven("threads", Threads), a \in Responders :
          ThreadCall(t, a, Call("initialize", BadBlob, PickleKey(KeyLen, 1)))
    \/ \E t \in Driven("threads", Threads), a \in Responders, b \in Blobs :
          \E key \in {PickleKey(KeyLen, 1), PickleKey(KeyLen, 2)} :
             ThreadCall(t, a, Call("from_pickle", b, key))
    \/ \E t \in Driven("threads", Threads), a \in Responders : ThreadDelete(t, a)
    \/ \E t \in Driven("threads", Threads), a \in Responders : ThreadAssign(t, a)
    \/ \E t \in Driven("threads", Threads), a \in Responders :
          ThreadPickle(t, a, PickleKey(KeyLen, 1))

Next ==
    \/ AccountNext
    \/ PersistNext
    \/ PairwiseNext
    \/ GroupNext
    \/ InboundNext
    \/ ThreadsNext

Spec == Init /\ [][Next]_vars

\* the host program of one scenario
AccountInit == Init /\ scenario = "account"
AccountSpec == AccountInit /\ [][AccountNext]_vars
PersistInit == Init /\ scenario = "persist"
PersistSpec == PersistInit /\ [][PersistNext]_vars
PairwiseInit == Init /\ scenario = "pairwise"
PairwiseSpec == PairwiseInit /\ [][PairwiseNext]_vars
GroupInit == Init /\ scenario = "group"
GroupSpec == GroupInit /\ [][GroupNext]_vars
InboundInit == Init /\ scenario = "inbound"
InboundSpec == InboundInit /\ [][InboundNext]_vars
ThreadsInit == Init /\ scenario = "threads"
ThreadsSpec == ThreadsInit /\ [][ThreadsNext]_vars

(***************************************************************************)
(* Properties.                                                             *)
(***************************************************************************)
\* C1: a message one side of an established pairwise session encrypts, the
\* other side decrypts, when delivered in order, to the plaintext that was
\* encrypted, for ASCII and non-ASCII text alike.
C1_PairwiseRoundTrip ==
    \A s \in SessionIds, m \in wire, p \in Plaintexts :
        LET st == session[s].st
            r  == VodozemacSession_decrypt(session[s], m.kind, m).result
        IN  (/\ session[s].born /\ session[s].init
             /\ m.keys = st.keys /\ m.from # st.side
             /\ m.epoch = st.recvEpoch /\ m.idx = st.recvNext
             /\ m.body = String_utf8(p))
            => (r.success /\ r.plaintext = p)

C3_KeyConsumedOnce ==
    \A c \in consumed, p \in Plaintexts :
        LET m == PeerPreKey(c.key.ident, c.key.id, p)
            r == VodozemacAccount_create_inbound_session(
                     account[c.a], IdentityKey(0), m.kind, m)
        IN  /\ ~r.result.success
            /\ account[c.a].init => r.last_error = "UnknownOneTimeKey"

\* C3, amended: the same, as long as from_pickle has not been called on the
\* account in between.
C3_KeyConsumedOnceUnlessReloaded ==
    \A c \in consumed, p \in Plaintexts :
        LET m == PeerPreKey(c.key.ident, c.key.id, p)
            r == VodozemacAccount_create_inbound_session(
                     account[c.a], IdentityKey(0), m.kind, m)
        IN  ~c.reloaded =>
               /\ ~r.result.success
               /\ r.last_error = "UnknownOneTimeKey"
               /\ r.h = account[c.a]

\* a replay of a used key has been refused after new keys were generated and
\* all keys were marked as published
C3_Witness ==
    \E c \in consumed :
        /\ ~c.reloaded
        /\ account[c.a].init
        /\ account[c.a].st.ident = c.key.ident
        /\ account[c.a].st.next > c.key.id + 1
        /\ account[c.a].st.unpub = {}
        /\ account_last_error[c.a] = "UnknownOneTimeKey"

\* C4: get_message_index of a group session is 0 right after initialize;
\* every successful encrypt raises it by exactly 1, and the message encrypt
\* returns carries the index the session had before the call, so that the
\* n-th message (from 0) carries index n.
C4_GroupIndex ==
    \A g \in GroupIds :
        LET h == group_session[g]
            before == VodozemacGroupSession_get_message_index(h).result
        IN  /\ \A sid \in 1..MaxIdent :
                  VodozemacGroupSession_get_message_index(
                      VodozemacGroupSession_initialize(h, sid).h).result = 0
            /\ h.init =>
                  \A p \in Plaintexts :
                     LET e == VodozemacGroupSession_encrypt(h, p)
                     IN  /\ e.result.success
                         /\ VodozemacGroupSession_get_message_index(e.h).result
                               = before + 1
                         /\ e.result.ciphertext.index = before
            /\ h.init /\ pickles = {} =>
                  {m.index : m \in {x \in group_wire : x.sid = h.st.sid}}
                     = 0..(before - 1)

\* a group session has encrypted the messages 0, 1 and 2
C4_Witness ==
    \E g \in GroupIds :
        /\ group_session[g].init
        /\ pickles = {}
        /\ VodozemacGroupSession_get_message_index(group_session[g]).result = 3
        /\ {m.index : m \in {x \in group_wire : x.sid = group_session[g].st.sid}}
              = 0..2

\* C5: an inbound group session that import_session seeded from an export
\* anchored at index N has first known index N, keeps it through decrypt,
\* export_at_index, pickle and the accessors, and fails every decrypt of a
\* message whose index is below N, returning no plaintext.
C5_NoDecryptBelowAnchor ==
    \A i \in InboundIds :
        LET h == inbound_session[i]
            N == VodozemacInboundGroupSession_get_first_known_index(h).result
            Kept(r) == r.h.init /\
                VodozemacInboundGroupSession_get_first_known_index(r.h).result = N
        IN  /\ \A g \in GroupIds : \A k \in ExportedKeys(g) :
                  LET r == VodozemacInboundGroupSession_import_session(h, k)
                  IN  /\ r.result = "OK"
                      /\ VodozemacInboundGroupSession_get_first_known_index(r.h).result
                            = k.index
            /\ h.init =>
                  /\ \A c \in GroupEnvelopes :
                        LET r == VodozemacInboundGroupSession_decrypt(h, c)
                        IN  /\ Kept(r)
                            /\ c.index < N =>
                                  /\ ~r.result.success
                                  /\ "plaintext" \notin DOMAIN r.result
                  /\ \A hi \in HighWords, lo \in 0..MaxIdx :
                        Kept(VodozemacInboundGroupSession_export_at_index(
                                 h, int64_t(hi, lo)))
                  /\ \A key \in PickleKeys :
                        Kept(VodozemacInboundGroupSession_pickle(h, key))
                  /\ Kept(VodozemacInboundGroupSession_get_session_id(h))
                  /\ Kept(VodozemacInboundGroupSession_get_first_known_index(h))

\* a session anchored above 0 has refused a genuine message from below its
\* anchor
C5_Witness ==
    \E i \in InboundIds, m \in group_wire :
        /\ inbound_session[i].init
        /\ inbound_session[i].st.sid = m.sid
        /\ inbound_session[i].st.first > m.index
        /\ inbound_last_error[i] = "MessageTooOld"

C7_FailedUnpickleKeepsState ==
    \A b \in Blobs, key \in PickleKeys :
        /\ \A a \in Accounts :
              LET r == VodozemacAccount_from_pickle(account[a], b, key)
              IN  account[a].init /\ r.result = "FAILED" =>
                     r.h.init /\ r.h.st = account[a].st
        /\ \A s \in SessionIds :
              LET r == VodozemacSession_from_pickle(session[s], b, key)
              IN  session[s].init /\ r.result = "FAILED" =>
                     r.h.init /\ r.h.st = session[s].st
        /\ \A g \in GroupIds :
              LET r == VodozemacGroupSession_from_pickle(group_session[g], b, key)
              IN  group_session[g].init /\ r.result = "FAILED" =>
                     r.h.init /\ r.h.st = group_session[g].st
        /\ \A i \in InboundIds :
              LET r == VodozemacInboundGroupSession_from_pickle(inbound_session[i], b, key)
              IN  inbound_session[i].init /\ r.result = "FAILED" =>
                     r.h.init /\ r.h.st = inbound_session[i].st

\* C8: a from_pickle call that fails on an entity that is not initialised
\* leaves it uninitialised, with nothing of the blob in it: every
\* state-dependent operation then fails with the not-initialized error.
C8_FailedUnpickleStaysUninitialised ==
    \A b \in Blobs, key \in PickleKeys :
        /\ \A a \in Accounts :
              LET r == VodozemacAccount_from_pickle(account[a], b, key)
              IN  ~account[a].init /\ r.result = "FAILED" =>
                     /\ r.h = Null(NoAccount) /\ r.deletes = 0
                     /\ r.last_error # NoError
                     /\ VodozemacAccount_get_identity_keys(r.h).last_error
                           = ErrAccountNotInit
                     /\ VodozemacAccount_get_one_time_keys(r.h).last_error
                           = ErrAccountNotInit
                     /\ VodozemacAccount_generate_one_time_keys(r.h, 1).last_error
                           = ErrAccountNotInit
                     /\ VodozemacAccount_pickle(r.h, PickleKey(KeyLen, 1)).last_error
                           = ErrAccountNotInit
        /\ \A s \in SessionIds :
              LET r == VodozemacSession_from_pickle(session[s], b, key)
              IN  ~session[s].init /\ r.result = "FAILED" =>
                     /\ ~r.h.init /\ r.h.st = NoSession /\ r.deletes = 0
                     /\ r.last_error # NoError
                     /\ VodozemacSession_get_session_id(r.h).last_error
                           = ErrSessionNotInit
                     /\ VodozemacSession_encrypt(r.h, <<65>>).last_error
                           = ErrSessionNotInit
                     /\ VodozemacSession_pickle(r.h, PickleKey(KeyLen, 1)).last_error
                           = ErrSessionNotInit
        /\ \A g \in GroupIds :
              LET r == VodozemacGroupSession_from_pickle(group_session[g], b, key)
              IN  ~group_session[g].init /\ r.result = "FAILED" =>
                     /\ r.h = Null(NoGroup) /\ r.deletes = 0
                     /\ r.last_error # NoError
                     /\ VodozemacGroupSession_get_message_index(r.h).last_error
                           = ErrGroupNotInit
                     /\ VodozemacGroupSession_encrypt(r.h, <<65>>).last_error
                           = ErrGroupNotInit
                     /\ VodozemacGroupSession_pickle(r.h, PickleKey(KeyLen, 1)).last_error
                           = ErrGroupNotInit
        /\ \A i \in InboundIds :
              LET r == VodozemacInboundGroupSession_from_pickle(inbound_session[i], b, key)
              IN  ~inbound_session[i].init /\ r.result = "FAILED" =>
                     /\ r.h = Null(NoInbound) /\ r.deletes = 0
                     /\ r.last_error # NoError
                     /\ VodozemacInboundGroupSession_get_first_known_index(r.h).last_error
                           = ErrInboundNotInit
                     /\ VodozemacInboundGroupSession_pickle(
                            r.h, PickleKey(KeyLen, 1)).last_error = ErrInboundNotInit

\* an account in a process that has initialised nothing has failed to load a
\* string that is no pickle
C8_Witness ==
    \E a \in Accounts :
        /\ nextIdent = 0
        /\ account[a] = Null(NoAccount)
        /\ account_last_error[a] = "DecryptionFailure"

\* C9: pickle and from_pickle of every entity type fail when the key is not
\* exactly 32 bytes long: pickle returns the empty string, from_pickle returns
\* FAILED, and the entity's state is not touched.
C9_KeyLength ==
    \A b \in Blobs, key \in {k \in PickleKeys : k.len # KeyLen} :
        /\ \A a \in Accounts :
              LET h == account[a]
                  pr == VodozemacAccount_pickle(h, key)
                  fr == VodozemacAccount_from_pickle(h, b, key)
              IN  /\ pr.result = "" /\ pr.last_error # NoError /\ pr.h = h
                  /\ fr.result = "FAILED" /\ fr.last_error = ErrKeyLen
                  /\ fr.h = h /\ fr.deletes = 0
        /\ \A s \in SessionIds :
              LET h == session[s]
                  pr == VodozemacSession_pickle(h, key)
                  fr == VodozemacSession_from_pickle(h, b, key)
              IN  /\ pr.result = "" /\ pr.last_error # NoError /\ pr.h = h
                  /\ fr.result = "FAILED" /\ fr.last_error = ErrKeyLen
                  /\ fr.h = h /\ fr.deletes = 0
        /\ \A g \in GroupIds :
              LET h == group_session[g]
                  pr == VodozemacGroupSession_pickle(h, key)
                  fr == VodozemacGroupSession_from_pickle(h, b, key)
              IN  /\ pr.result = "" /\ pr.last_error # NoError /\ pr.h = h
                  /\ fr.result = "FAILED" /\ fr.last_error = ErrKeyLen
                  /\ fr.h = h /\ fr.deletes = 0
        /\ \A i \in InboundIds :
              LET h == inbound_session[i]
                  pr == VodozemacInboundGroupSession_pickle(h, key)
                  fr == VodozemacInboundGroupSession_from_pickle(h, b, key)
              IN  /\ pr.result = "" /\ pr.last_error # NoError /\ pr.h = h
                  /\ fr.result = "FAILED" /\ fr.last_error = ErrKeyLen
                  /\ fr.h = h /\ fr.deletes = 0

\* an initialised inbound group session that has messages to decrypt has
\* refused a key of the wrong length
C9_Witness ==
    \E i \in InboundIds :
        /\ inbound_session[i].init
        /\ inbound_session[i].st.first > 0
        /\ inbound_last_error[i] = ErrKeyLen

\* C10: the last-error slot of an entity reflects the most recent call on it:
\* every operation other than get_last_error leaves the empty string in it
\* when it succeeded and its own non-empty error message when it failed, and
\* get_last_error returns the slot without changing it.
C10_LastError ==
    LET Status(r) == (r.result = "OK" /\ r.last_error = NoError)
                     \/ (r.result = "FAILED" /\ r.last_error # NoError)
        Outcome(r) == (r.result.success /\ r.last_error = NoError)
                      \/ (/\ ~r.result.success /\ r.last_error # NoError
                          /\ r.result.error = r.last_error)
        Access(r, h) == r.last_error = NoError <=> h.init
    IN  /\ \A a \in Accounts :
              LET h == account[a]
              IN  /\ Status(VodozemacAccount_initialize(h, 1))
                  /\ Access(VodozemacAccount_get_identity_keys(h), h)
                  /\ \A n \in Counts :
                        Status(VodozemacAccount_generate_one_time_keys(h, n))
                  /\ Access(VodozemacAccount_get_one_time_keys(h), h)
                  /\ Access(VodozemacAccount_mark_keys_as_published(h), h)
                  /\ Access(VodozemacAccount_get_max_number_of_one_time_keys(h), h)
                  /\ \A key \in PickleKeys :
                        LET r == VodozemacAccount_pickle(h, key)
                        IN  r.last_error = NoError <=> (h.init /\ key.len = KeyLen)
                  /\ \A b \in Blobs, key \in PickleKeys :
                        Status(VodozemacAccount_from_pickle(h, b, key))
                  /\ \A ik \in {IdentityKey(0), BadKey}, otk \in {CurveKey(0, 0), BadKey} :
                        LET r == VodozemacAccount_create_outbound_session(h, ik, otk, 0)
                        IN  r.last_error = NoError <=> r.new.init
                  /\ \A ik \in {IdentityKey(0), BadKey}, c \in PeerEnvelopes(a) \cup wire :
                        Outcome(VodozemacAccount_create_inbound_session(h, ik, c.kind, c))
                  /\ VodozemacAccount_get_last_error(account_last_error[a])
                        = account_last_error[a]
        /\ \A s \in SessionIds :
              LET h == session[s]
              IN  /\ Access(VodozemacSession_get_session_id(h), h)
                  /\ \A mt \in MessageTypes, c \in Envelopes :
                        LET r == VodozemacSession_session_matches(h, mt, c)
                        IN  /\ r.last_error = NoError <=> (h.init /\ mt = c.kind)
                            /\ r.last_error # NoError => ~r.result
                  /\ \A p \in Plaintexts : Outcome(VodozemacSession_encrypt(h, p))
                  /\ \A mt \in MessageTypes, c \in Envelopes :
                        Outcome(VodozemacSession_decrypt(h, mt, c))
                  /\ \A key \in PickleKeys :
                        LET r == VodozemacSession_pickle(h, key)
                        IN  r.last_error = NoError <=> (h.init /\ key.len = KeyLen)
                  /\ \A b \in Blobs, key \in PickleKeys :
                        Status(VodozemacSession_from_pickle(h, b, key))
                  /\ VodozemacSession_get_last_error(session_last_error[s])
                        = session_last_error[s]
        /\ \A g \in GroupIds :
              LET h == group_session[g]
              IN  /\ Status(VodozemacGroupSession_initialize(h, 1))
                  /\ Access(VodozemacGroupSession_get_session_id(h), h)
                  /\ \A p \in Plaintexts : Outcome(VodozemacGroupSession_encrypt(h, p))
                  /\ Access(VodozemacGroupSession_get_session_key(h), h)
                  /\ Access(VodozemacGroupSession_get_message_index(h), h)
                  /\ \A key \in PickleKeys :
                        LET r == VodozemacGroupSession_pickle(h, key)
                        IN  r.last_error = NoError <=> (h.init /\ key.len = KeyLen)
                  /\ \A b \in Blobs, key \in PickleKeys :
                        Status(VodozemacGroupSession_from_pickle(h, b, key))
                  /\ VodozemacGroupSession_get_last_error(group_last_error[g])
                        = group_last_error[g]
        /\ \A i \in InboundIds :
              LET h == inbound_session[i]
              IN  /\ \A g \in GroupIds : \A k \in SessionKeys(g) \cup {BadSessionKey} :
                        Status(VodozemacInboundGroupSession_initialize_from_session_key(h, k))
                  /\ \A g \in GroupIds : \A k \in ExportedKeys(g) \cup {BadSessionKey} :
                        Status(VodozemacInboundGroupSession_import_session(h, k))
                  /\ Access(VodozemacInboundGroupSession_get_session_id(h), h)
                  /\ \A c \in GroupEnvelopes :
                        Outcome(VodozemacInboundGroupSession_decrypt(h, c))
                  /\ Access(VodozemacInboundGroupSession_get_first_known_index(h), h)
                  /\ \A hi \in HighWords, lo \in 0..MaxIdx :
                        Outcome(VodozemacInboundGroupSession_export_at_index(
                                    h, int64_t(hi, lo)))
                  /\ \A key \in PickleKeys :
                        LET r == VodozemacInboundGroupSession_pickle(h, key)
                        IN  r.last_error = NoError <=> (h.init /\ key.len = KeyLen)
                  /\ \A b \in Blobs, key \in PickleKeys :
                        Status(VodozemacInboundGroupSession_from_pickle(h, b, key))
                  /\ VodozemacInboundGroupSession_get_last_error(inbound_last_error[i])
                        = inbound_last_error[i]

\* the slot of an initialised session holds the error of its last call, a
\* decrypt that failed
C10_Witness ==
    \E s \in SessionIds :
        /\ session[s].init
        /\ session_last_error[s] = "AuthenticationFailure"

\* C11: create_inbound_session either succeeds, returning success = true, an
\* initialised session and the plaintext the peer encrypted, and removing
\* exactly the one-time key the message references from the account, or it
\* fails, returning success = false, no session, an empty plaintext and an
\* error, and leaving the account as it was.  It succeeds on genuine pre-key
\* messages only.
C11_InboundAtomic ==
    \A a \in Responders, ik \in {IdentityKey(0), BadKey}, mt \in MessageTypes :
        \A c \in PeerEnvelopes(a) :
            LET h == account[a]
                r == VodozemacAccount_create_inbound_session(h, ik, mt, c)
            IN  \/ /\ r.result.success
                   /\ r.made /\ r.new.init
                   /\ r.result.plaintext = <<65, 233>>
                   /\ r.last_error = NoError
                   /\ mt = 0 /\ c \in PeerPreKeys(a)
                   /\ h.init /\ r.h.init
                   /\ c.keys.otk.id \in h.st.pool
                   /\ r.h.st.pool = h.st.pool \ {c.keys.otk.id}
                   /\ r.h.st.ident = h.st.ident /\ r.h.st.next = h.st.next
                \/ /\ ~r.result.success
                   /\ ~r.made /\ ~r.new.init
                   /\ r.result.plaintext = <<>>
                   /\ r.result.error # NoError /\ r.last_error = r.result.error
                   /\ r.h = h

\* an account that has accepted a pre-key message has then refused an altered
\* one that references a key still in its pool, and the key is still there
C11_Witness ==
    \E c \in consumed :
        /\ ~c.reloaded
        /\ account[c.a].init
        /\ c.key.id \notin account[c.a].st.pool
        /\ account[c.a].st.pool # {}
        /\ account_last_error[c.a] = "AuthenticationFailure"

\* C12: decrypt of a genuine message of the group session an inbound group
\* session mirrors fails with MessageTooOld when the message's index is below
\* the first known index, and otherwise succeeds, returning the plaintext that
\* was encrypted and the index the sender had when it encrypted the message.
C12_GroupDecrypt ==
    \A i \in InboundIds, m \in group_wire, p \in Plaintexts :
        LET h == inbound_session[i]
            r == VodozemacInboundGroupSession_decrypt(h, m)
        IN  (h.init /\ m.sid = h.st.sid /\ m.body = String_utf8(p)) =>
               IF m.index < VodozemacInboundGroupSession_get_first_known_index(h).result
               THEN ~r.result.success /\ r.result.error = "MessageTooOld"
               ELSE /\ r.result.success
                    /\ r.result.plaintext = p
                    /\ r.result.message_index = m.index

\* C13: export_at_index(i) fails with IndexOutOfRange, returning no
\* exported_key, whenever i is below the first known index; for every i at or
\* above it the call succeeds, and import_session of the export on another
\* instance gives that instance first known index i and the same session id.
C13_ExportAtIndex ==
    \A i \in InboundIds, hi \in HighWords, lo \in 0..MaxIdx :
        LET h     == inbound_session[i]
            first == VodozemacInboundGroupSession_get_first_known_index(h).result
            x     == VodozemacInboundGroupSession_export_at_index(h, int64_t(hi, lo))
            below == hi < 0 \/ (hi = 0 /\ lo < first)
        IN  h.init =>
               IF below
               THEN /\ ~x.result.success
                    /\ x.result.error = "IndexOutOfRange"
                    /\ "exported_key" \notin DOMAIN x.result
               ELSE /\ x.result.success
                    /\ LET imp == VodozemacInboundGroupSession_import_session(
                                      Null(NoInbound), x.result.exported_key)
                       IN  /\ imp.result = "OK"
                           /\ hi = 0
                           /\ VodozemacInboundGroupSession_get_first_known_index(
                                  imp.h).result = lo
                           /\ VodozemacInboundGroupSession_get_session_id(imp.h).result
                                 = VodozemacInboundGroupSession_get_session_id(h).result

\* C14: initialize_from_session_key with the value get_session_key returned
\* when the group session's index was n gives an inbound group session with
\* first known index n and the group session's id; it decrypts the messages
\* the group session encrypts at index n and later, and none of the messages
\* encrypted before index n.
C14_SessionKeySeedsAtIndex ==
    \A g \in GroupIds, i \in InboundIds :
        LET gs  == group_session[g]
            key == VodozemacGroupSession_get_session_key(gs).result
            n   == VodozemacGroupSession_get_message_index(gs).result
            Seeded(r, id, at) ==
                /\ r.result = "OK" /\ r.h.init
                /\ VodozemacInboundGroupSession_get_first_known_index(r.h).result = at
                /\ VodozemacInboundGroupSession_get_session_id(r.h).result = id
            Opens(h, m) ==
                LET d == VodozemacInboundGroupSession_decrypt(h, m)
                IN  d.result.success /\ d.result.message_index = m.index
            Past(id) == {m \in group_wire : m.sid = id}
        IN  gs.init =>
              LET id == VodozemacGroupSession_get_session_id(gs).result
                  r  == VodozemacInboundGroupSession_initialize_from_session_key(
                            inbound_session[i], key)
              IN  \* the key of this moment: nothing sent so far, everything from now on
                  /\ key \in SessionKeys(g)
                  /\ Seeded(r, id, n)
                  /\ \A m \in Past(id) :
                        ~VodozemacInboundGroupSession_decrypt(r.h, m).result.success
                  /\ \A p \in Plaintexts, q \in Plaintexts :
                        LET e1 == VodozemacGroupSession_encrypt(gs, p)
                            e2 == VodozemacGroupSession_encrypt(e1.h, q)
                            d2 == VodozemacInboundGroupSession_decrypt(
                                      r.h, e2.result.ciphertext)
                        IN  /\ Opens(r.h, e1.result.ciphertext)
                            /\ Opens(r.h, e2.result.ciphertext)
                            /\ Opens(d2.h, e1.result.ciphertext)
                  \* the keys of earlier moments, against what was sent since
                  /\ \A k \in SessionKeys(g) :
                        LET rk == VodozemacInboundGroupSession_initialize_from_session_key(
                                      inbound_session[i], k)
                        IN  /\ Seeded(rk, id, k.index)
                            /\ \A m \in Past(id) :
                                  IF m.index >= k.index
                                  THEN Opens(rk.h, m)
                                  ELSE ~VodozemacInboundGroupSession_decrypt(
                                            rk.h, m).result.success

\* an inbound group session seeded at index 1 has decrypted the message of
\* index 2 after the group session had sent the messages 0, 1 and 2
C14_Witness ==
    \E g \in GroupIds, i \in InboundIds :
        /\ group_session[g].init /\ inbound_session[i].init
        /\ inbound_session[i].st.sid = group_session[g].st.sid
        /\ inbound_session[i].st.first = 1
        /\ inbound_session[i].st.latest = 2
        /\ inbound_last_error[i] = NoError
        /\ {m.index : m \in {x \in group_wire : x.sid = group_session[g].st.sid}} = 0..2

C16_PublishedKeysLeave ==
    \A a \in Responders :
        LET h == account[a]
            m == VodozemacAccount_mark_keys_as_published(h)
            Unpublished(x) == DOMAIN VodozemacAccount_get_one_time_keys(x).result
        IN  h.init =>
              /\ m.last_error = NoError
              /\ Unpublished(m.h) = {}
              /\ VodozemacAccount_mark_keys_as_published(m.h).h = m.h
              /\ Unpublished(VodozemacAccount_get_identity_keys(m.h).h) = {}
              /\ Unpublished(VodozemacAccount_get_one_time_keys(m.h).h) = {}
              /\ Unpublished(VodozemacAccount_get_max_number_of_one_time_keys(m.h).h) = {}
              /\ \A count \in {n \in Counts : n <= 0} :
                    Unpublished(VodozemacAccount_generate_one_time_keys(m.h, count).h) = {}
              /\ \A key \in PickleKeys :
                    Unpublished(VodozemacAccount_pickle(m.h, key).h) = {}
              /\ \A ik \in {IdentityKey(0), BadKey}, c \in PeerEnvelopes(a) :
                    Unpublished(VodozemacAccount_create_inbound_session(
                                    m.h, ik, c.kind, c).h) = {}
              /\ \A count \in {n \in Counts : n > 0} :
                    LET g == VodozemacAccount_generate_one_time_keys(m.h, count)
                        keys == VodozemacAccount_get_one_time_keys(g.h).result
                    IN  /\ Cardinality(DOMAIN keys) = count
                        /\ DOMAIN keys \cap Unpublished(h) = {}
                        /\ DOMAIN keys \cap h.st.pool = {}
                        /\ \A id \in DOMAIN keys : id >= h.st.next
                        /\ \A id \in DOMAIN keys : keys[id] = CurveKey(h.st.ident, id)

\* an account holds a key it has marked as published and a key it generated
\* after that, and get_one_time_keys returns the second only
C16_Witness ==
    \E a \in Responders :
        /\ account[a].init
        /\ account[a].st.pool = {0, 1}
        /\ DOMAIN VodozemacAccount_get_one_time_keys(account[a]).result = {1}
        /\ account_last_error[a] = NoError
        /\ pickles = {}

\* C17: session_matches, whatever message type and ciphertext it is given and
\* whether it returns true, false or fails to parse, leaves the session as it
\* was: the session id is the same, and every encrypt and decrypt that follows
\* returns, and leaves behind, what it would have without the call.
C17_MatchesReadsOnly ==
    \A s \in SessionIds :
        LET h == [init |-> session[s].init, st |-> session[s].st]
            Matches(mt, c) == VodozemacSession_session_matches(h, mt, c)
        IN  session[s].born =>
              /\ \A mt \in MessageTypes \cup {2}, c \in Envelopes :
                    /\ Matches(mt, c).result \in BOOLEAN
                    /\ Matches(mt, c).h.init = h.init
                    /\ Matches(mt, c).h.st = h.st
              /\ \A c \in wire \cup {BadMessage} :
                    LET r == Matches(c.kind, c)
                    IN  /\ VodozemacSession_get_session_id(r.h).result
                              = VodozemacSession_get_session_id(h).result
                        /\ \A p \in Plaintexts :
                              VodozemacSession_encrypt(r.h, p)
                                 = VodozemacSession_encrypt(h, p)
                        /\ \A m \in wire :
                              VodozemacSession_decrypt(r.h, m.kind, m)
                                 = VodozemacSession_decrypt(h, m.kind, m)

\* a session that has received and sent since holds a pre-key message in reach
\* that matches it, and one that does not
C17_Witness ==
    \E s \in SessionIds, c \in wire, d \in wire :
        /\ session[s].born /\ session[s].init
        /\ session[s].st.recvNext > 0 /\ session[s].st.sendIdx > 0
        /\ session_last_error[s] = NoError
        /\ VodozemacSession_session_matches(session[s], c.kind, c).result
        /\ ~VodozemacSession_session_matches(session[s], d.kind, d).result
        /\ VodozemacSession_decrypt(session[s], d.kind, d).result.success

\* C18: create_outbound_session fails with an InvalidKey error when the peer
\* identity key or the peer one-time key is not a valid key; the session
\* object it then returns is not initialised, so that get_session_id,
\* session_matches, encrypt, decrypt and pickle on it fail as not initialised,
\* and the account is as it was.  With two valid keys it succeeds.
C18_OutboundChecksKeys ==
    \A a \in Initiators, ik \in {IdentityKey(0), BadKey},
       otk \in {CurveKey(0, 0), BadKey}, base \in SessionIds :
        LET h == account[a]
            r == VodozemacAccount_create_outbound_session(h, ik, otk, base)
            s == VodozemacSession_set_session(Null(NoSession), r.new).h
            Refused(x) == x.last_error = ErrSessionNotInit /\ ~x.h.init
        IN  h.init =>
               IF ik = BadKey \/ otk = BadKey
               THEN /\ r.last_error = "InvalidKey"
                    /\ r.h = h
                    /\ ~s.init
                    /\ Refused(VodozemacSession_get_session_id(s))
                    /\ VodozemacSession_get_session_id(s).result = ""
                    /\ \A p \in Plaintexts :
                          /\ Refused(VodozemacSession_encrypt(s, p))
                          /\ ~VodozemacSession_encrypt(s, p).result.success
                    /\ \A c \in Envelopes :
                          /\ Refused(VodozemacSession_decrypt(s, c.kind, c))
                          /\ ~VodozemacSession_decrypt(s, c.kind, c).result.success
                          /\ Refused(VodozemacSession_session_matches(s, c.kind, c))
                          /\ ~VodozemacSession_session_matches(s, c.kind, c).result
                    /\ \A key \in PickleKeys :
                          /\ Refused(VodozemacSession_pickle(s, key))
                          /\ VodozemacSession_pickle(s, key).result = ""
               ELSE /\ r.last_error = NoError
                    /\ r.h = h
                    /\ s.init

\* the account has been refused a session for an invalid key, and a call on
\* the session object it got back has failed as not initialised
C18_Witness ==
    \E a \in Initiators, s \in SessionIds :
        /\ account[a].init
        /\ account_last_error[a] = "InvalidKey"
        /\ session[s].born /\ ~session[s].init
        /\ session_last_error[s] = ErrSessionNotInit
        /\ pickles = {}
        /\ ~double_free

\* C19: a call on one object leaves every other object that exists as it was:
\* in each step at most one existing object changes (its state or its error
\* slot), a session is not changed by calls on the account that created it,
\* and no call on one object ends the life of the others.
C19_EntitiesIndependent ==
    [][ LET Changed ==
                {<<"account", a>> : a \in {x \in Accounts :
                     account'[x] # account[x]
                        \/ account_last_error'[x] # account_last_error[x]}}
                \cup {<<"session", s>> : s \in {x \in SessionIds :
                     session[x].born /\
                        (session'[x] # session[x]
                           \/ session_last_error'[x] # session_last_error[x])}}
                \cup {<<"group", g>> : g \in {x \in GroupIds :
                     group_session'[x] # group_session[x]
                        \/ group_last_error'[x] # group_last_error[x]}}
                \cup {<<"inbound", i>> : i \in {x \in InboundIds :
                     inbound_session'[x] # inbound_session[x]
                        \/ inbound_last_error'[x] # inbound_last_error[x]}}
            Alive ==
                {<<"account", a>> : a \in {x \in Accounts : account[x].init}}
                \cup {<<"session", s>> : s \in {x \in SessionIds : session[x].init}}
                \cup {<<"group", g>> : g \in {x \in GroupIds : group_session[x].init}}
                \cup {<<"inbound", i>> : i \in {x \in InboundIds : inbound_session[x].init}}
        IN  /\ Cardinality(Changed) <= 1
            /\ (crashed' /\ ~crashed) => Alive \subseteq Changed
      ]_vars

\* C20: over any sequence of calls on one group session object, initialize
\* and from_pickle among them, the message index get_message_index returns
\* for the session the object holds never falls below one it returned before.
C20_IndexNeverRewound ==
    [][ \A g \in GroupIds :
            group_session[g].init /\ group_session'[g].init =>
               VodozemacGroupSession_get_message_index(group_session'[g]).result
                  >= VodozemacGroupSession_get_message_index(group_session[g]).result
      ]_vars

\* C20, amended: the same over the calls other than initialize and
\* from_pickle (encrypt, get_session_key, pickle, the accessors); each message
\* encrypt returns then carries the index returned before the call, and the
\* index returned after it is larger by one, so that no index is used twice.
C20_IndexRewoundOnlyByReload ==
    [][ \A g \in GroupIds :
            LET before == VodozemacGroupSession_get_message_index(group_session[g]).result
                after  == VodozemacGroupSession_get_message_index(group_session'[g]).result
            IN  \/ GroupInitialize(g)
                \/ \E b \in Blobs, key \in PickleKeys : GroupFromPickle(g, b, key)
                \/ /\ after >= before
                   /\ \A m \in group_wire' \ group_wire :
                         /\ m.index = before
                         /\ after = before + 1
                         /\ \A x \in group_wire : x.sid = m.sid /\ pickles = {}
                                                     => x.index < m.index
      ]_vars

\* a group session that has been pickled has then encrypted up to index 2
C20_Witness ==
    \E g \in GroupIds :
        /\ group_session[g].init
        /\ pickles # {}
        /\ \A b \in pickles : b.st.index = 1
        /\ VodozemacGroupSession_get_message_index(group_session[g]).result = 3
        /\ {m.index : m \in {x \in group_wire : x.sid = group_session[g].st.sid}}
              = 0..2

\* C21: decrypt on an inbound group session never changes the first known
\* index, and the genuine messages at or above it decrypt in any order: after
\* the message of index j has been decrypted, a message of index i with
\* first known index <= i < j still decrypts to the plaintext that was
\* encrypted.
C21_AnyOrder ==
    \A i \in InboundIds :
        LET h     == inbound_session[i]
            first == VodozemacInboundGroupSession_get_first_known_index(h).result
            Mine  == {m \in group_wire : m.sid = h.st.sid /\ m.index >= first}
        IN  h.init =>
              /\ \A c \in GroupEnvelopes :
                    VodozemacInboundGroupSession_get_first_known_index(
                        VodozemacInboundGroupSession_decrypt(h, c).h).result = first
              /\ \A mj \in Mine, mi \in Mine, p \in Plaintexts :
                    LET dj == VodozemacInboundGroupSession_decrypt(h, mj)
                        di == VodozemacInboundGroupSession_decrypt(dj.h, mi)
                    IN  (mi.index < mj.index /\ mi.body = String_utf8(p)) =>
                           /\ dj.result.success
                           /\ di.result.success
                           /\ di.result.message_index = mi.index
                           /\ di.result.plaintext = p

\* C22: a successful generate_one_time_keys(count) with count > 0 adds exactly
\* count keys to what get_one_time_keys returns, each with an id above every
\* id generated before, and every key get_one_time_keys returned before the
\* call is still returned after it, unchanged.
C22_GenerateAddsKeys ==
    \A a \in Responders, count \in {n \in Counts : n > 0} :
        LET h      == account[a]
            g      == VodozemacAccount_generate_one_time_keys(h, count)
            before == VodozemacAccount_get_one_time_keys(h).result
            after  == VodozemacAccount_get_one_time_keys(g.h).result
            new    == DOMAIN after \ DOMAIN before
        IN  h.init =>
              /\ g.result = "OK" /\ g.last_error = NoError
              /\ DOMAIN before \subseteq DOMAIN after
              /\ \A id \in DOMAIN before : after[id] = before[id]
              /\ Cardinality(new) = count
              /\ \A id \in new :
                    /\ \A old \in 0..(h.st.next - 1) : id > old
                    /\ \A old \in h.st.pool : id > old
                    /\ \A c \in consumed :
                          (c.a = a /\ ~c.reloaded /\ c.key.ident = h.st.ident)
                             => id > c.key.id
                    /\ after[id] = CurveKey(h.st.ident, id)

\* an account has generated two keys, and get_one_time_keys returns both
C22_Witness ==
    \E a \in Responders :
        /\ account[a].init
        /\ account_last_error[a] = NoError
        /\ Cardinality(DOMAIN VodozemacAccount_get_one_time_keys(account[a]).result) = 2
        /\ account[a].st.next = 2

\* C23: when one side of a pairwise session encrypts two messages and the
\* other side, which has received all that was sent before, receives them in
\* either order, each decrypts to the plaintext that was encrypted, exactly
\* once; a message that is ahead by more than the window of skipped keys
\* fails with MessageGap, leaves the receiver as it was, and the messages
\* before it still decrypt.
C23_ReorderWithinWindow ==
    \A s \in SessionIds, t \in SessionIds :
        LET hs == [init |-> session[s].init, st |-> session[s].st]
            ht == [init |-> session[t].init, st |-> session[t].st]
            InSync ==
                /\ hs.init /\ ht.init
                /\ hs.st.keys = ht.st.keys /\ hs.st.side # ht.st.side
                /\ ht.st.recvEpoch = hs.st.sendEpoch
                /\ IF hs.st.sendActive
                   THEN ht.st.recvNext = hs.st.sendIdx
                   ELSE ht.st.sendEpoch = hs.st.recvEpoch
            Decrypt(h, c) == VodozemacSession_decrypt(h, c.kind, c)
            Opens(h, c, p) ==
                Decrypt(h, c).result.success /\ Decrypt(h, c).result.plaintext = p
            Refuses(h, c) == ~Decrypt(h, c).result.success
            RECURSIVE Sent(_, _)
            Sent(h, k) ==
                IF k = 0 THEN h ELSE Sent(VodozemacSession_encrypt(h, <<65>>).h, k - 1)
        IN  InSync =>
              \A p1 \in Plaintexts, p2 \in Plaintexts :
                 LET e1  == VodozemacSession_encrypt(hs, p1)
                     e2  == VodozemacSession_encrypt(e1.h, p2)
                     c1  == e1.result.ciphertext
                     c2  == e2.result.ciphertext
                     far == VodozemacSession_encrypt(
                                Sent(e1.h, SkipWindow), p2).result.ciphertext
                     t1  == Decrypt(ht, c1).h
                     t12 == Decrypt(t1, c2).h
                     t2  == Decrypt(ht, c2).h
                     t21 == Decrypt(t2, c1).h
                 IN  /\ Opens(ht, c1, p1) /\ Opens(t1, c2, p2)
                     /\ Refuses(t1, c1) /\ Refuses(t12, c1) /\ Refuses(t12, c2)
                     /\ Opens(ht, c2, p2) /\ Opens(t2, c1, p1)
                     /\ Refuses(t2, c2) /\ Refuses(t21, c1) /\ Refuses(t21, c2)
                     /\ Refuses(ht, far)
                     /\ Decrypt(ht, far).result.error = "MessageGap"
                     /\ Decrypt(ht, far).h = ht
                     /\ Opens(Decrypt(ht, far).h, c1, p1)

\* C25: in every state a single-threaded sequence of initialize, from_pickle,
\* initialize_from_session_key, import_session and _set_session calls
\* reaches, no object has been deleted twice: each call deletes the object
\* its entity held at most once, and an entity that held none deletes none.
C25_NoObjectDeletedTwice ==
    /\ ~double_free
    /\ \A a \in Accounts, b \in Blobs, key \in PickleKeys :
          /\ VodozemacAccount_initialize(account[a], nextIdent + 1).deletes
                <= (IF account[a].init THEN 1 ELSE 0)
          /\ VodozemacAccount_from_pickle(account[a], b, key).deletes
                <= (IF account[a].init THEN 1 ELSE 0)
    /\ \A s \in SessionIds, b \in Blobs, key \in PickleKeys :
          /\ VodozemacSession_set_session(session[s], session[s].st).deletes
                <= (IF session[s].init THEN 1 ELSE 0)
          /\ VodozemacSession_from_pickle(session[s], b, key).deletes
                <= (IF session[s].init THEN 1 ELSE 0)
    /\ \A g \in GroupIds, b \in Blobs, key \in PickleKeys :
          /\ VodozemacGroupSession_initialize(group_session[g], nextIdent + 1).deletes
                <= (IF group_session[g].init THEN 1 ELSE 0)
          /\ VodozemacGroupSession_from_pickle(group_session[g], b, key).deletes
                <= (IF group_session[g].init THEN 1 ELSE 0)
    /\ \A i \in InboundIds, b \in Blobs, key \in PickleKeys :
          /\ \A g \in GroupIds :
                /\ \A k \in SessionKeys(g) \cup {BadSessionKey} :
                      VodozemacInboundGroupSession_initialize_from_session_key(
                          inbound_session[i], k).deletes
                         <= (IF inbound_session[i].init THEN 1 ELSE 0)
                /\ \A k \in ExportedKeys(g) \cup {BadSessionKey} :
                      VodozemacInboundGroupSession_import_session(
                          inbound_session[i], k).deletes
                         <= (IF inbound_session[i].init THEN 1 ELSE 0)
          /\ VodozemacInboundGroupSession_from_pickle(inbound_session[i], b, key).deletes
                <= (IF inbound_session[i].init THEN 1 ELSE 0)

\* C27: for every 64-bit message_index, export_at_index fails or returns an
\* export anchored at exactly that index; a message_index that is negative
\* or at least 2^32 always fails, and is never taken for the index
\* message_index mod 2^32.
C27_NoIndexWraps ==
    \A i \in InboundIds, hi \in HighWords, lo \in 0..MaxIdx :
        LET x == VodozemacInboundGroupSession_export_at_index(
                     inbound_session[i], int64_t(hi, lo))
        IN  /\ x.result.success =>
                  int64_t(0, x.result.exported_key.index) = int64_t(hi, lo)
            /\ hi # 0 => ~x.result.success

\* C26: every state-dependent operation called on an entity that is not
\* initialised fails with that entity's not-initialized error, returns its
\* failure value (the empty string, the empty Dictionary, success = false
\* with the error, FAILED, false, -1 for an index, 0 for the key maximum, a
\* session object that is not initialised) and leaves the entity
\* uninitialised; pickle does so whatever the length of the key.
C26_NotInitialised ==
    LET Fails(r, h, e, value) ==
            /\ r.last_error = e
            /\ r.result = value
            /\ r.h = h /\ ~r.h.init
        Refuses(r, h, e) ==
            /\ r.last_error = e
            /\ ~r.result.success
            /\ r.result.error = e
            /\ r.h = h /\ ~r.h.init
    IN  /\ \A a \in Accounts :
              LET h == account[a]
                  e == ErrAccountNotInit
              IN  ~h.init =>
                     /\ Fails(VodozemacAccount_get_identity_keys(h), h, e, <<>>)
                     /\ Fails(VodozemacAccount_get_one_time_keys(h), h, e, <<>>)
                     /\ \A count \in Counts :
                           Fails(VodozemacAccount_generate_one_time_keys(h, count),
                                 h, e, "FAILED")
                     /\ LET r == VodozemacAccount_mark_keys_as_published(h)
                        IN  r.last_error = e /\ r.h = h
                     /\ Fails(VodozemacAccount_get_max_number_of_one_time_keys(h),
                              h, e, 0)
                     /\ \A key \in HostKeys :
                           Fails(VodozemacAccount_pickle(h, key), h, e, "")
                     /\ \A ik \in {IdentityKey(0), BadKey},
                           otk \in {CurveKey(0, 0), BadKey} :
                           LET r == VodozemacAccount_create_outbound_session(
                                        h, ik, otk, 0)
                           IN  /\ r.last_error = e /\ r.h = h
                               /\ ~r.new.init
                     /\ \A ik \in {IdentityKey(0), BadKey},
                           c \in wire \cup PeerEnvelopes(a) :
                           LET r == VodozemacAccount_create_inbound_session(
                                        h, ik, c.kind, c)
                           IN  /\ Refuses(r, h, e)
                               /\ ~r.made /\ r.result.plaintext = <<>>
        /\ \A s \in SessionIds :
              LET h == session[s]
                  e == ErrSessionNotInit
              IN  ~h.init =>
                     /\ Fails(VodozemacSession_get_session_id(h), h, e, "")
                     /\ \A c \in wire \cup {BadMessage} :
                           /\ Fails(VodozemacSession_session_matches(h, c.kind, c),
                                    h, e, FALSE)
                           /\ Refuses(VodozemacSession_decrypt(h, c.kind, c), h, e)
                     /\ \A p \in Plaintexts :
                           Refuses(VodozemacSession_encrypt(h, p), h, e)
                     /\ \A key \in HostKeys :
                           Fails(VodozemacSession_pickle(h, key), h, e, "")
        /\ \A g \in GroupIds :
              LET h == group_session[g]
                  e == ErrGroupNotInit
              IN  ~h.init =>
                     /\ Fails(VodozemacGroupSession_get_session_id(h), h, e, "")
                     /\ Fails(VodozemacGroupSession_get_session_key(h), h, e, "")
                     /\ Fails(VodozemacGroupSession_get_message_index(h), h, e, -1)
                     /\ \A p \in Plaintexts :
                           Refuses(VodozemacGroupSession_encrypt(h, p), h, e)
                     /\ \A key \in HostKeys :
                           Fails(VodozemacGroupSession_pickle(h, key), h, e, "")
        /\ \A i \in InboundIds :
              LET h == inbound_session[i]
                  e == ErrInboundNotInit
              IN  ~h.init =>
                     /\ Fails(VodozemacInboundGroupSession_get_session_id(h), h, e, "")
                     /\ Fails(VodozemacInboundGroupSession_get_first_known_index(h),
                              h, e, -1)
                     /\ \A c \in GroupEnvelopes :
                           Refuses(VodozemacInboundGroupSession_decrypt(h, c), h, e)
                     /\ \A hi \in HighWords, lo \in 0..MaxIdx :
                           Refuses(VodozemacInboundGroupSession_export_at_index(
                                       h, int64_t(hi, lo)), h, e)
                     /\ \A key \in HostKeys :
                           Fails(VodozemacInboundGroupSession_pickle(h, key), h, e, "")

\* an account that is not initialised has been asked for a session, and the
\* session object it returned, not initialised either, has been called
C26_Witness ==
    \E a \in Accounts, s \in SessionIds :
        /\ ~account[a].init
        /\ account_last_error[a] = ErrAccountNotInit
        /\ session[s].born /\ ~session[s].init
        /\ session_last_error[s] = ErrSessionNotInit

C24_UnlockedRace ==
    /\ mutex = "unused"
    /\ double_free
    /\ \A t \in Threads :
          /\ thread[t].pc = "deleted"
          /\ \/ thread[t].call.op = "initialize"
             \/ lib_from_pickle("account", thread[t].call.pickle_str,
                                thread[t].call.key).err = NoError

====
